---- MODULE Spec2Model ----
(***************************************************************************)
(* A model of the base-core HTTP CRUD backend: the User and Order          *)
(* services over their relational store, the per-client rate limiter, the  *)
(* timeout middleware and the middleware chain's panic handling.           *)
(*                                                                         *)
(* Each subsystem has its own specification over the shared variables:     *)
(*   SpecUser     user service calls, interleaved statement by statement   *)
(*   SpecLimiter  the rate limiter's bucket table, requests and the sweep  *)
(*   SpecTimeout  the timeout middleware racing a handler goroutine        *)
(*   SpecPipeline the middleware chain with a panic raised in any stage    *)
(*   SpecOrder    order service calls over the inter-module container      *)
(* A specification leaves the variables of the other subsystems unchanged. *)
(***************************************************************************)
EXTENDS Integers, Sequences, FiniteSets, TLC

VARIABLES
    users,          \* the users table: user id -> [name, email, status]
    nextUserId,     \* the next identifier uuid.New() hands to userService.Create
    ucall,          \* per user-service call in flight: its position and locals
    limiters,       \* RateLimiter.limiters: client address -> bucket (0: no entry)
    buckets,        \* the rate.Limiter objects ever allocated: bucket -> tokens
    lcall,          \* per rate-limited request in flight: position and bucket held
    burstSeen,      \* per client address: requests admitted / processed since time last advanced
    usedSince,      \* the buckets that served a request since the previous sweep
    treq,           \* per request inside the Timeout middleware: both goroutines and the response
    preq,           \* per request walking the middleware chain: stage reached and response
    processAlive,   \* FALSE once an unrecovered panic has terminated the server process
    orders,         \* the orders table: order id -> [userId, quantity, status]
    nextOrderId,    \* the next identifier uuid.New() hands to orderService.Create
    container,      \* the ModuleContainer's UserVerifier and UserGetter slots
    userStoreUp,    \* whether queries on the users table succeed (FALSE: they fail with a fault)
    ocall,          \* per order-service call in flight: its position, locals and result
    orderStamp,     \* the updated_at column of the orders table: order id -> millisecond
    now,            \* the wall clock, in milliseconds
    listRows,       \* created_at of the records of the table a list call reads
    storeBuild,     \* which of the two Query builders of package store is compiled in
    listing,        \* the last list call: its query parameters and its outcome
    deployment,     \* cfg.App.IsProduction and cfg.Server.CORSOrigins
    sreq,           \* the request walking the middleware chain
    sres,           \* how far it got, and the response so far
    IsProductionMode, \* common.IsProductionMode
    eresp,          \* the last error response written, and the error behind it
    registry,       \* the ModuleContainer: its four slots
    slotWrites,     \* per slot of the ModuleContainer: how often it was assigned
    pcMain,         \* where main is: start-up steps, waiting for a signal, shutting down
    dbOpen,         \* whether the database connection pool is open
    listening,      \* whether the HTTP server accepts requests
    inflight,       \* per request slot of the server: its progress and what its query met
    wcall           \* per order Update / Delete / GetByID call in flight: position, locals, result

userVars     == <<users, nextUserId, ucall>>
limiterVars  == <<limiters, buckets, lcall, burstSeen, usedSince>>
timeoutVars  == <<treq>>
pipelineVars == <<preq, processAlive>>
orderVars    == <<orders, nextOrderId, container, userStoreUp, ocall>>
writeVars    == <<orderStamp, now, wcall>>
listVars     == <<listRows, storeBuild, listing>>
stageVars    == <<deployment, sreq, sres>>
errorVars    == <<IsProductionMode, eresp>>
registryVars == <<registry, slotWrites>>
processVars  == <<pcMain, dbOpen, listening, inflight>>
lateVars     == <<registryVars, processVars>>
moreVars     == <<writeVars, listVars, stageVars, errorVars, lateVars>>
vars == <<users, nextUserId, ucall, limiters, buckets, lcall, burstSeen, usedSince, treq,
          preq, processAlive, orders, nextOrderId, container, userStoreUp, ocall,
          orderStamp, now, wcall, listRows, storeBuild, listing,
          deployment, sreq, sres, IsProductionMode, eresp, registry, slotWrites,
          pcMain, dbOpen, listening, inflight>>

(***************************************************************************)
(* Bounds of the model.                                                    *)
(***************************************************************************)
MaxUsers      == 2   \* user identifiers uuid.New() can hand out
NumUserCalls  == 2   \* user-service calls that run concurrently

UserIds   == 1..MaxUsers
UserCalls == 1..NumUserCalls
Emails    == {"a@x.com", "b@x.com"}

(***************************************************************************)
(* Error codes and their HTTP status.                                      *)
(***************************************************************************)
ErrorCodeInternalError == "INTERNAL_ERROR"
ErrorCodeNotFound      == "NOT_FOUND"
ErrorCodeInvalid       == "INVALID"
ErrorCodeEmailExists   == "EMAIL_EXISTS"
ErrorCodeUserNotFound  == "USER_NOT_FOUND"
CodeOK                 == "OK"

\* mapErrorCodeToHTTPStatus, on the codes the services produce.
mapErrorCodeToHTTPStatus(code) ==
    CASE code \in {ErrorCodeNotFound, ErrorCodeUserNotFound} -> 404
      [] code \in {ErrorCodeInvalid, ErrorCodeEmailExists}   -> 400
      [] code = ErrorCodeInternalError                       -> 500
      [] OTHER                                               -> 500

(***************************************************************************)
(* The users table and the statements the user repository runs on it.      *)
(***************************************************************************)
UserRec(name, email, status) == [name |-> name, email |-> email, status |-> status]

\* The zero value of entity.User's columns; a call's local before it is read.
NoUser == UserRec("", "", 0)

\* A users table without the unique index: every row is accepted.
UniqueIndexBroken(tbl, id, email) == TRUE
\* entity.User.Email carries gorm:"uniqueIndex": a row may take `email` only
\* when no other row holds it.
UniqueIndexOK(tbl, id, email) ==
    \A i \in DOMAIN tbl : i # id => tbl[i].email # email

\* userRepository.FindByEmail: is there a row with this email.
FindByEmail(tbl, email) == \E i \in DOMAIN tbl : tbl[i].email = email

\* The table with row `id` set to `rec`.
PutRow(tbl, id, rec) ==
    [i \in (DOMAIN tbl) \cup {id} |-> IF i = id THEN rec ELSE tbl[i]]

\* The table without row `id`.
DropRow(tbl, id) == [i \in (DOMAIN tbl) \ {id} |-> tbl[i]]

\* userRepository.Update runs db.Model(&User{}).Where("id = ?").Updates(user)
\* with a struct: gorm assigns only the struct's non-zero fields, so a column
\* whose new value is "" or 0 keeps its stored value.
UpdatesStruct(stored, user) ==
    UserRec(IF user.name # "" THEN user.name ELSE stored.name,
            IF user.email # "" THEN user.email ELSE stored.email,
            IF user.status # 0 THEN user.status ELSE stored.status)

\* The update request: name and email "" when omitted, status <<>> when nil.
UpdateUserRequests ==
    [name : {"", "Bob"}, email : Emails \cup {""}, status : {<<>>, <<0>>, <<1>>}]

\* The create request: both fields are required.
CreateUserRequests == [name : {"Ann"}, email : Emails]

\* userService.Update lines 69-87: the fields of the request applied to the
\* record read by FindByID (the email only when it differs).
ApplyRequest(user, req) ==
    UserRec(IF req.name # "" THEN req.name ELSE user.name,
            IF req.email # "" /\ req.email # user.email THEN req.email ELSE user.email,
            IF req.status # <<>> THEN req.status[1] ELSE user.status)

(***************************************************************************)
(* User service calls. A call is a sequence of repository statements; the  *)
(* statements of concurrent calls interleave.                              *)
(***************************************************************************)
IdleUserCall ==
    [pc |-> "idle", op |-> "none", id |-> 0, req |-> [name |-> "", email |-> "", status |-> <<>>],
     user |-> NoUser, read |-> NoUser, held |-> FALSE, code |-> "none"]

\* A call returns: its locals are gone, its outcome stays on record (the
\* operation, the code, and whether a stored row held the email it asked for).
UserReturn(c, code) ==
    [IdleUserCall EXCEPT !.op = c.op, !.code = code, !.held = c.held]

\* userService.Create, lines 35-42: the existence check.
UserCreateCheck(p, name, email) ==
    /\ ucall[p].pc = "idle"
    /\ LET c0 == [IdleUserCall EXCEPT !.op = "create", !.req.name = name, !.req.email = email]
       IN IF FindByEmail(users, email)
          THEN /\ ucall' = [ucall EXCEPT ![p] =
                                UserReturn([c0 EXCEPT !.held = TRUE], ErrorCodeEmailExists)]
               /\ UNCHANGED nextUserId
          ELSE /\ nextUserId <= MaxUsers
               /\ ucall' = [ucall EXCEPT ![p] =
                                [c0 EXCEPT !.pc = "create_insert", !.id = nextUserId,
                                           !.user = UserRec(name, email, 1)]]
               /\ nextUserId' = nextUserId + 1
    /\ UNCHANGED users

\* userService.Create, lines 52-56, and userRepository.Create: the insert,
\* which the unique index on email may refuse.
UserCreateInsert(p) ==
    /\ ucall[p].pc = "create_insert"
    /\ LET c == ucall[p] IN
       IF UniqueIndexOK(users, c.id, c.user.email)
       THEN /\ users' = PutRow(users, c.id, c.user)
            /\ ucall' = [ucall EXCEPT ![p] =
                            UserReturn(c, CodeOK)]
       ELSE /\ users' = users
            /\ ucall' = [ucall EXCEPT ![p] =
                            UserReturn([c EXCEPT !.held = TRUE], ErrorCodeInternalError)]
    /\ UNCHANGED nextUserId

\* userService.Update, lines 60-67: FindByID.
UserUpdateFind(p, id, req) ==
    /\ ucall[p].pc = "idle"
    /\ LET c0 == [IdleUserCall EXCEPT !.op = "update", !.id = id, !.req = req]
       IN IF id \in DOMAIN users
          THEN ucall' = [ucall EXCEPT ![p] =
                            [c0 EXCEPT !.pc = "update_check", !.user = users[id],
                                       !.read = users[id]]]
          ELSE ucall' = [ucall EXCEPT ![p] = UserReturn(c0, ErrorCodeUserNotFound)]
    /\ UNCHANGED <<users, nextUserId>>

\* userService.Update, lines 69-87: the uniqueness check of a changed email,
\* then the supplied fields copied into the record read.
UserUpdateCheck(p) ==
    /\ ucall[p].pc = "update_check"
    /\ LET c == ucall[p] IN
       IF c.req.email # "" /\ c.req.email # c.user.email /\ FindByEmail(users, c.req.email)
       THEN ucall' = [ucall EXCEPT ![p] = UserReturn(c, ErrorCodeEmailExists)]
       ELSE ucall' = [ucall EXCEPT ![p] =
                         [c EXCEPT !.pc = "update_write", !.user = ApplyRequest(c.user, c.req)]]
    /\ UNCHANGED <<users, nextUserId>>

\* userService.Update, lines 89-96, and userRepository.Update: the UPDATE
\* statement; no row matched is NotFound, a refused email is a fault.
UserUpdateWrite(p) ==
    /\ ucall[p].pc = "update_write"
    /\ LET c == ucall[p] IN
       IF c.id \notin DOMAIN users
       THEN /\ users' = users
            /\ ucall' = [ucall EXCEPT ![p] = UserReturn(c, ErrorCodeUserNotFound)]
       ELSE LET row == UpdatesStruct(users[c.id], c.user) IN
            IF UniqueIndexOK(users, c.id, row.email)
            THEN /\ users' = PutRow(users, c.id, row)
                 /\ ucall' = [ucall EXCEPT ![p] =
                                 UserReturn(c, CodeOK)]
            ELSE /\ users' = users
                 /\ ucall' = [ucall EXCEPT ![p] = UserReturn(c, ErrorCodeInternalError)]
    /\ UNCHANGED nextUserId

\* userService.Delete, lines 100-107: FindByID.
UserDeleteFind(p, id) ==
    /\ ucall[p].pc = "idle"
    /\ LET c0 == [IdleUserCall EXCEPT !.op = "delete", !.id = id]
       IN IF id \in DOMAIN users
          THEN ucall' = [ucall EXCEPT ![p] = [c0 EXCEPT !.pc = "delete_write", !.read = users[id]]]
          ELSE ucall' = [ucall EXCEPT ![p] = UserReturn(c0, ErrorCodeUserNotFound)]
    /\ UNCHANGED <<users, nextUserId>>

\* userService.Delete, lines 109-116, and userRepository.Delete.
UserDeleteWrite(p) ==
    /\ ucall[p].pc = "delete_write"
    /\ LET c == ucall[p] IN
       IF c.id \in DOMAIN users
       THEN /\ users' = DropRow(users, c.id)
            /\ ucall' = [ucall EXCEPT ![p] = UserReturn(c, CodeOK)]
       ELSE /\ users' = users
            /\ ucall' = [ucall EXCEPT ![p] = UserReturn(c, ErrorCodeUserNotFound)]
    /\ UNCHANGED nextUserId

\* The rows the table may hold when the server starts: none, or one user
\* created earlier, active or since deactivated.
SeedUserTables ==
    {<<>>} \cup {[i \in {1} |-> UserRec("Ann", "a@x.com", s)] : s \in {0, 1}}

UserFrame == UNCHANGED <<limiterVars, timeoutVars, pipelineVars, orderVars, moreVars>>

UserCreateCheckStep == \E p \in UserCalls, r \in CreateUserRequests : UserCreateCheck(p, r.name, r.email) /\ UserFrame
UserCreateInsertStep == \E p \in UserCalls : UserCreateInsert(p) /\ UserFrame
UserUpdateFindStep == \E p \in UserCalls, id \in UserIds, r \in UpdateUserRequests : UserUpdateFind(p, id, r) /\ UserFrame
UserUpdateCheckStep == \E p \in UserCalls : UserUpdateCheck(p) /\ UserFrame
UserUpdateWriteStep == \E p \in UserCalls : UserUpdateWrite(p) /\ UserFrame
UserDeleteFindStep == \E p \in UserCalls, id \in UserIds : UserDeleteFind(p, id) /\ UserFrame
UserDeleteWriteStep == \E p \in UserCalls : UserDeleteWrite(p) /\ UserFrame


(***************************************************************************)
(* The rate limiter: RateLimiter.limiters maps a client address to a       *)
(* rate.Limiter; the middleware looks the limiter up (creating it on a     *)
(* miss) and then calls Allow on it; cleanup sweeps the table.             *)
(***************************************************************************)
Burst            == 2   \* the configured burst ceiling B (cfg.ServerLimits.RateLimitBurst)
MaxBuckets       == 3   \* rate.Limiter objects allocated in a run
NumLimiterReqs   == 2   \* rate-limited requests in flight at once

Clients     == {"10.0.0.1", "10.0.0.2"}
LimiterReqs == 1..NumLimiterReqs

IdleLimiterCall == [pc |-> "idle", ip |-> "10.0.0.1", bucket |-> 0, status |-> 0]
NoBurst == [admitted |-> 0, processed |-> 0]

\* rate.NewLimiter(rl.rate, rl.burst): a bucket starts full.
NewLimiter == Burst

\* rate.Limiter.Allow: one token is taken when one is there.
AllowOK(b) == buckets[b] >= 1

\* GetLimiter, lines 38-40: the read under RLock.
LimiterLookup(r, ip) ==
    /\ lcall[r].pc = "idle"
    /\ burstSeen[ip].processed <= Burst
    /\ lcall' = [lcall EXCEPT ![r] =
                    IF limiters[ip] # 0
                    THEN [IdleLimiterCall EXCEPT !.pc = "have", !.ip = ip, !.bucket = limiters[ip]]
                    ELSE [IdleLimiterCall EXCEPT !.pc = "miss", !.ip = ip]]
    /\ UNCHANGED <<limiters, buckets, burstSeen, usedSince>>

\* GetLimiter, lines 42-51: the double-checked insert under the write lock.
LimiterInsert(r) ==
    /\ lcall[r].pc = "miss"
    /\ LET ip == lcall[r].ip IN
       IF limiters[ip] # 0
       THEN /\ lcall' = [lcall EXCEPT ![r].pc = "have", ![r].bucket = limiters[ip]]
            /\ UNCHANGED <<limiters, buckets>>
       ELSE /\ Len(buckets) < MaxBuckets
            /\ buckets' = Append(buckets, NewLimiter)
            /\ limiters' = [limiters EXCEPT ![ip] = Len(buckets) + 1]
            /\ lcall' = [lcall EXCEPT ![r].pc = "have", ![r].bucket = Len(buckets) + 1]
    /\ UNCHANGED <<burstSeen, usedSince>>

\* RateLimitWithLimiter, lines 97-108: Allow on the limiter obtained; 429 and
\* Abort when it refuses, c.Next() (status 200 here) when it admits.
LimiterAllow(r) ==
    /\ lcall[r].pc = "have"
    /\ LET b == lcall[r].bucket
           ip == lcall[r].ip
       IN IF AllowOK(b)
          THEN /\ buckets' = [buckets EXCEPT ![b] = @ - 1]
               /\ lcall' = [lcall EXCEPT ![r].pc = "idle", ![r].status = 200]
               /\ burstSeen' = [burstSeen EXCEPT ![ip].admitted = @ + 1, ![ip].processed = @ + 1]
          ELSE /\ buckets' = buckets
               /\ lcall' = [lcall EXCEPT ![r].pc = "idle", ![r].status = 429]
               /\ burstSeen' = [burstSeen EXCEPT ![ip].processed = @ + 1]
    /\ usedSince' = usedSince \cup {lcall[r].bucket}
    /\ UNCHANGED limiters

\* One pass of RateLimiter.cleanup, lines 62-71, under the write lock: every
\* entry whose limiter.Allow() succeeds is deleted (Allow takes a token of it).
SweepEvicts(ip) == limiters[ip] # 0 /\ buckets[limiters[ip]] >= 1
Cleanup ==
    /\ \E ip \in Clients : limiters[ip] # 0
    /\ limiters' = [ip \in Clients |-> IF SweepEvicts(ip) THEN 0 ELSE limiters[ip]]
    /\ buckets' = [b \in DOMAIN buckets |->
                      IF \E ip \in Clients : limiters[ip] = b /\ SweepEvicts(ip)
                      THEN buckets[b] - 1 ELSE buckets[b]]
    /\ usedSince' = {}
    /\ UNCHANGED <<lcall, burstSeen>>

\* Time advances by 1/R seconds: every limiter gains a token, up to the burst.
LimiterTick ==
    /\ \E ip \in Clients : burstSeen[ip].processed > 0
    /\ buckets' = [b \in DOMAIN buckets |-> IF buckets[b] < Burst THEN buckets[b] + 1 ELSE Burst]
    /\ burstSeen' = [ip \in Clients |-> NoBurst]
    /\ UNCHANGED <<limiters, lcall, usedSince>>

LimiterFrame == UNCHANGED <<userVars, timeoutVars, pipelineVars, orderVars, moreVars>>

LimiterLookupStep == \E r \in LimiterReqs, ip \in Clients : LimiterLookup(r, ip) /\ LimiterFrame
LimiterInsertStep == \E r \in LimiterReqs : LimiterInsert(r) /\ LimiterFrame
LimiterAllowStep == \E r \in LimiterReqs : LimiterAllow(r) /\ LimiterFrame
CleanupStep == Cleanup /\ LimiterFrame
LimiterTickStep == LimiterTick /\ LimiterFrame


(***************************************************************************)
(* The Timeout middleware: the request's goroutine spawns a goroutine that *)
(* runs the rest of the chain (c.Next()) and then selects on its           *)
(* completion and on the deadline. Both goroutines write to the one        *)
(* gin.Context; the writer is not synchronised between them.               *)
(***************************************************************************)
NumTimeoutReqs == 2   \* requests inside the Timeout middleware at once

TimeoutReqs == 1..NumTimeoutReqs

NewTimeoutReq ==
    [main |-> "new", handler |-> "none", deadline |-> FALSE, late |-> FALSE,
     status |-> 0, body |-> <<>>, wireStatus |-> 0, wireBody |-> <<>>, stray |-> 0]

\* gin's c.JSON(code, obj) on the context's response writer: WriteHeader sets
\* the status only while nothing has been written, Write appends the body.
WriteJSON(q, code, obj) ==
    [q EXCEPT !.status = IF q.status = 0 THEN code ELSE q.status,
              !.body = Append(q.body, obj)]

\* Timeout, lines 15-26: the context with deadline, the goroutine spawned.
TimeoutEnter(r) ==
    /\ treq[r].main = "new"
    /\ treq' = [treq EXCEPT ![r].main = "select", ![r].handler = "running"]

\* The spawned goroutine, inside c.Next(): the handler writes its response
\* with c.JSON. Once ServeHTTP has returned the response is on the wire and
\* the write no longer reaches this request's client.
HandlerResponds(r, code) ==
    /\ treq[r].handler = "running"
    /\ treq' = [treq EXCEPT ![r] =
                   IF treq[r].main = "returned"
                   THEN [treq[r] EXCEPT !.handler = "responded", !.stray = 1]
                   ELSE [WriteJSON(treq[r], code, "handler") EXCEPT !.handler = "responded"]]

\* The spawned goroutine, line 26: c.Next() returns and done is closed.
HandlerCompletes(r) ==
    /\ treq[r].handler = "responded"
    /\ treq' = [treq EXCEPT ![r].handler = "done"]

\* The deadline of context.WithTimeout elapses while the request is waiting.
DeadlineElapses(r) ==
    /\ treq[r].main = "select"
    /\ ~treq[r].deadline
    /\ treq' = [treq EXCEPT ![r].deadline = TRUE, ![r].late = (treq[r].handler # "done")]

\* Timeout, lines 29-32: the select takes the done case.
SelectDone(r) ==
    /\ treq[r].main = "select"
    /\ treq[r].handler = "done"
    /\ treq' = [treq EXCEPT ![r].main = "returning"]

\* Timeout, lines 33-42: the select takes the ctx.Done() case and the
\* request's goroutine writes the 504 body and aborts.
SelectTimeout(r) ==
    /\ treq[r].main = "select"
    /\ treq[r].deadline
    /\ treq' = [treq EXCEPT ![r] = [WriteJSON(treq[r], 504, "timeout") EXCEPT !.main = "returning"]]

\* The middleware returns, ServeHTTP returns and the response goes to the
\* client as it stands.
TimeoutReturn(r) ==
    /\ treq[r].main = "returning"
    /\ treq' = [treq EXCEPT ![r].main = "returned",
                            ![r].wireStatus = treq[r].status,
                            ![r].wireBody = treq[r].body]

TimeoutFrame == UNCHANGED <<userVars, limiterVars, pipelineVars, orderVars, moreVars>>

TimeoutEnterStep == \E r \in TimeoutReqs : TimeoutEnter(r) /\ TimeoutFrame
HandlerRespondsStep == \E r \in TimeoutReqs, code \in {200, 404} : HandlerResponds(r, code) /\ TimeoutFrame
HandlerCompletesStep == \E r \in TimeoutReqs : HandlerCompletes(r) /\ TimeoutFrame
DeadlineElapsesStep == \E r \in TimeoutReqs : DeadlineElapses(r) /\ TimeoutFrame
SelectDoneStep == \E r \in TimeoutReqs : SelectDone(r) /\ TimeoutFrame
SelectTimeoutStep == \E r \in TimeoutReqs : SelectTimeout(r) /\ TimeoutFrame
TimeoutReturnStep == \E r \in TimeoutReqs : TimeoutReturn(r) /\ TimeoutFrame


(***************************************************************************)
(* The middleware chain of NewRouter. gin.Default() installs gin's own     *)
(* Logger and Recovery in front of it. A stage's code before c.Next() runs *)
(* on the way down, its code after c.Next() on the way back up. Everything *)
(* after the Timeout stage runs in the goroutine that stage spawns.        *)
(***************************************************************************)
NumPipelineReqs == 2   \* requests walking the chain at once

PipelineReqs == 1..NumPipelineReqs

\* NewRouter, lines 37-60, in registration order, then the route's handler.
Chain ==
    <<"SecurityHeaders", "CORS", "RequestID", "RateLimit", "Timeout",
      "RequestSizeValidation", "ContentTypeValidation", "Metrics", "Logging",
      "Recovery", "handler">>

\* The position of a stage in the chain.
StageIndex(name) == CHOOSE i \in 1..Len(Chain) : Chain[i] = name

NewPipelineReq == [pos |-> 1, dir |-> "down", status |-> 0, panicked |-> FALSE]

\* Who recovers a panic raised by the stage at position pos: the deferred
\* recover of middleware.Recovery for what runs beneath it, gin.Default()'s
\* Recovery for what runs in the request's own goroutine, and nobody for the
\* stages the Timeout goroutine runs before it enters middleware.Recovery.
RecoveredBy(pos) ==
    IF pos >= StageIndex("Recovery") THEN "middleware.Recovery"
    ELSE IF pos > StageIndex("Timeout") THEN "nobody"
    ELSE "gin.Recovery"

\* A panic raised by request r at its current stage.
Panic(r) ==
    LET who == RecoveredBy(preq[r].pos) IN
    CASE who = "middleware.Recovery" ->
            \* Recovery, lines 14-35: the generic 500 body, Abort, and the
            \* chain unwinds from the Recovery stage.
            /\ preq' = [preq EXCEPT ![r] = [pos |-> StageIndex("Recovery") - 1, dir |-> "up",
                                            status |-> 500, panicked |-> TRUE]]
            /\ UNCHANGED processAlive
      [] who = "gin.Recovery" ->
            \* gin's Recovery: AbortWithStatus(500), the request is over.
            /\ preq' = [preq EXCEPT ![r] = [pos |-> 0, dir |-> "done",
                                            status |-> 500, panicked |-> TRUE]]
            /\ UNCHANGED processAlive
      [] OTHER ->
            \* An unrecovered panic in a goroutine ends the Go process.
            /\ preq' = [preq EXCEPT ![r].panicked = TRUE]
            /\ processAlive' = FALSE

\* The stage at r's position runs its code before c.Next(); the handler
\* writes its response and the chain starts to unwind.
StageDown(r, panics) ==
    /\ processAlive
    /\ preq[r].dir = "down"
    /\ IF panics THEN Panic(r)
       ELSE /\ preq' = [preq EXCEPT ![r] =
                           IF preq[r].pos = Len(Chain)
                           THEN [preq[r] EXCEPT !.pos = @ - 1, !.dir = "up", !.status = 200]
                           ELSE [preq[r] EXCEPT !.pos = @ + 1]]
            /\ UNCHANGED processAlive

\* The stage at r's position runs its code after c.Next().
StageUp(r, panics) ==
    /\ processAlive
    /\ preq[r].dir = "up"
    /\ IF panics THEN Panic(r)
       ELSE /\ preq' = [preq EXCEPT ![r] =
                           IF preq[r].pos = 1
                           THEN [preq[r] EXCEPT !.pos = 0, !.dir = "done"]
                           ELSE [preq[r] EXCEPT !.pos = @ - 1]]
            /\ UNCHANGED processAlive

PipelineFrame == UNCHANGED <<userVars, limiterVars, timeoutVars, orderVars, moreVars>>

StageDownStep == \E r \in PipelineReqs, panics \in BOOLEAN : StageDown(r, panics) /\ PipelineFrame
StageUpStep == \E r \in PipelineReqs, panics \in BOOLEAN : StageUp(r, panics) /\ PipelineFrame


(***************************************************************************)
(* The Order service. It reaches the User module through the container's   *)
(* UserVerifier and UserGetter slots, each holding the user adapter or     *)
(* nothing.                                                                *)
(***************************************************************************)
MaxOrders     == 2   \* order identifiers uuid.New() can hand out
NumOrderCalls == 1   \* order-service calls in flight at once

OrderIds   == 1..MaxOrders
OrderCalls == 1..NumOrderCalls
Quantities == {1, 2}

OrderStatusPending   == 1
OrderStatusCompleted == 2
OrderStatusCancelled == 3

OrderRec(userId, quantity, status) == [userId |-> userId, quantity |-> quantity, status |-> status]

\* The answer of a cross-module user lookup: an error code and, without
\* error, the interfaces.UserInfo.
Lookup(err, user) == [err |-> err, found |-> (err = CodeOK), user |-> user]

\* userService.GetByID through userRepository.FindByID: the row, NotFound
\* when there is none, a fault when the query fails.
UserGetByID(uid) ==
    IF ~userStoreUp THEN Lookup(ErrorCodeInternalError, NoUser)
    ELSE IF uid \in DOMAIN users THEN Lookup(CodeOK, users[uid])
    ELSE Lookup(ErrorCodeUserNotFound, NoUser)

\* userServiceAdapter.VerifyUserExists: the error of GetByID, NotFound kept
\* as USER_NOT_FOUND and anything else wrapped as an internal error.
AdapterVerifyUserExists(uid) == UserGetByID(uid).err

\* userServiceAdapter.GetUserByID: GetByID's error as it is, or the projection.
AdapterGetUserByID(uid) == UserGetByID(uid)

\* A verification that refuses every user when no UserVerifier is registered.
verifyUserExistsStrict(uid) ==
    IF container.UserVerifier = "nil" THEN ErrorCodeUserNotFound
    ELSE AdapterVerifyUserExists(uid)
\* orderService.verifyUserExists: skipped when no UserVerifier is registered.
verifyUserExists(uid) ==
    IF container.UserVerifier = "nil" THEN CodeOK
    ELSE AdapterVerifyUserExists(uid)

\* A validation that looks nobody up and answers with the zero UserInfo.
getUserForValidationNoLookup(uid) == Lookup(CodeOK, NoUser)
\* orderService.getUserForValidation: the user when a UserGetter is there,
\* otherwise existence only and no user.
getUserForValidation(uid) ==
    IF container.UserGetter = "nil"
    THEN [err |-> verifyUserExists(uid), found |-> FALSE, user |-> NoUser]
    ELSE AdapterGetUserByID(uid)

\* A Create without the inactive-user check.
RejectsNobody(v) == FALSE
\* orderService.Create, line 57: the inactive-user check.
RejectsInactive(v) == v.found /\ v.user.status = 0

\* An enrichment that returns the UserGetter's error to its caller.
EnrichPropagates(ord) ==
    LET g == AdapterGetUserByID(ord.userId) IN
    [userId |-> ord.userId, userName |-> g.user.name, userEmail |-> g.user.email,
     err |-> g.err]
\* orderService.toOrderResponse, lines 216-226: the owner's name and email
\* when a UserGetter is registered and its call succeeds, otherwise empty.
\* It returns a nil error in every case.
Enrich(ord) ==
    IF container.UserGetter = "nil"
    THEN [userId |-> ord.userId, userName |-> "", userEmail |-> "", err |-> CodeOK]
    ELSE LET g == AdapterGetUserByID(ord.userId) IN
         [userId |-> ord.userId,
          userName |-> IF g.found THEN g.user.name ELSE "",
          userEmail |-> IF g.found THEN g.user.email ELSE "",
          err |-> CodeOK]

\* orderService.convertOrdersToResponses over the orders `ids`.
convertOrdersToResponses(ids) == [o \in ids |-> Enrich(orders[o])]

\* What a call saw of the User module when it ran: the users stored, whether
\* their store answered, and the capabilities registered.
Seen == [ids |-> DOMAIN users,
         inactive |-> {u \in DOMAIN users : users[u].status = 0},
         up |-> userStoreUp]

IdleOrderCall ==
    [pc |-> "idle", op |-> "none", userId |-> 0, orderId |-> 0, quantity |-> 0,
     code |-> "none", http |-> 0, inserted |-> FALSE, queried |-> FALSE, readable |-> {},
     seen |-> [ids |-> {}, inactive |-> {}, up |-> TRUE], resp |-> <<>>]

\* A call's result: the code and the HTTP status RespondServiceError or the
\* success responder gives it.
OrderReturn(c, code, okStatus) ==
    [c EXCEPT !.pc = "idle", !.code = code,
              !.http = IF code = CodeOK THEN okStatus ELSE mapErrorCodeToHTTPStatus(code)]

\* convertOrdersToResponses, lines 271-275, and the callers of
\* toOrderResponse: an error it returns fails the whole call.
EnrichmentError(resp) ==
    IF \E o \in DOMAIN resp : resp[o].err # CodeOK
    THEN (CHOOSE e \in {resp[o].err : o \in DOMAIN resp} : e # CodeOK)
    ELSE CodeOK

\* orderService.Create, lines 51-63: the user is validated.
OrderCreateValidate(p, uid, qty) ==
    /\ ocall[p].pc = "idle"
    /\ LET c0 == [IdleOrderCall EXCEPT !.op = "create", !.userId = uid,
                                       !.quantity = qty, !.seen = Seen]
           v == getUserForValidation(uid)
       IN IF v.err # CodeOK
          THEN /\ ocall' = [ocall EXCEPT ![p] = OrderReturn(c0, v.err, 201)]
               /\ UNCHANGED nextOrderId
          ELSE IF RejectsInactive(v)
          THEN /\ ocall' = [ocall EXCEPT ![p] = OrderReturn(c0, ErrorCodeInvalid, 201)]
               /\ UNCHANGED nextOrderId
          ELSE /\ nextOrderId <= MaxOrders
               /\ ocall' = [ocall EXCEPT ![p] = [c0 EXCEPT !.pc = "create_insert",
                                                          !.orderId = nextOrderId]]
               /\ nextOrderId' = nextOrderId + 1
    /\ UNCHANGED <<orders, users, container, userStoreUp>>

\* orderService.Create, lines 65-92: the order is inserted with status
\* pending and returned enriched.
OrderCreateInsert(p) ==
    /\ ocall[p].pc = "create_insert"
    /\ LET c == ocall[p]
           ord == OrderRec(c.userId, c.quantity, OrderStatusPending)
           resp == [o \in {c.orderId} |-> Enrich(ord)]
       IN /\ orders' = [o \in (DOMAIN orders) \cup {c.orderId} |->
                           IF o = c.orderId THEN ord ELSE orders[o]]
          /\ ocall' = [ocall EXCEPT ![p] =
                          OrderReturn([c EXCEPT !.inserted = TRUE, !.queried = TRUE, !.resp = resp],
                                      EnrichmentError(resp), 201)]
    /\ UNCHANGED <<nextOrderId, users, container, userStoreUp>>

\* orderService.GetByID.
OrderGetByID(p, oid) ==
    /\ ocall[p].pc = "idle"
    /\ LET c0 == [IdleOrderCall EXCEPT !.op = "getbyid", !.orderId = oid, !.seen = Seen,
                                       !.queried = TRUE,
                                       !.readable = (DOMAIN orders) \cap {oid}]
       IN IF oid \in DOMAIN orders
          THEN LET resp == convertOrdersToResponses({oid}) IN
               ocall' = [ocall EXCEPT ![p] =
                            OrderReturn([c0 EXCEPT !.resp = resp], EnrichmentError(resp), 200)]
          ELSE ocall' = [ocall EXCEPT ![p] = OrderReturn(c0, ErrorCodeNotFound, 200)]
    /\ UNCHANGED <<orders, nextOrderId, users, container, userStoreUp>>

\* orderService.GetAll (every stored order is on the page returned).
OrderGetAll(p) ==
    /\ ocall[p].pc = "idle"
    /\ LET c0 == [IdleOrderCall EXCEPT !.op = "getall", !.seen = Seen, !.queried = TRUE,
                                       !.readable = DOMAIN orders]
           resp == convertOrdersToResponses(DOMAIN orders)
       IN ocall' = [ocall EXCEPT ![p] =
                       OrderReturn([c0 EXCEPT !.resp = resp], EnrichmentError(resp), 200)]
    /\ UNCHANGED <<orders, nextOrderId, users, container, userStoreUp>>

\* A GetByUserID that queries the orders whatever the verification said.
ReachesRepositoryAlways(e) == TRUE
\* orderService.GetByUserID, lines 176-181: repo.FindByUserID is called only
\* after verifyUserExists returned nil.
ReachesRepository(e) == e = CodeOK

\* orderService.GetByUserID: the user is verified, then the user's orders
\* are read and enriched.
OrderGetByUserID(p, uid) ==
    /\ ocall[p].pc = "idle"
    /\ LET mine == {o \in DOMAIN orders : orders[o].userId = uid}
           c0 == [IdleOrderCall EXCEPT !.op = "getbyuser", !.userId = uid, !.seen = Seen,
                                       !.readable = mine]
           e == verifyUserExists(uid)
           c1 == [c0 EXCEPT !.queried = ReachesRepository(e)]
       IN IF e # CodeOK
          THEN ocall' = [ocall EXCEPT ![p] = OrderReturn(c1, e, 200)]
          ELSE LET resp == convertOrdersToResponses(mine) IN
               ocall' = [ocall EXCEPT ![p] =
                            OrderReturn([c1 EXCEPT !.resp = resp], EnrichmentError(resp), 200)]
    /\ UNCHANGED <<orders, nextOrderId, users, container, userStoreUp>>

\* The DELETE statement of a concurrent userService.Delete (userRepository.Delete).
UserRowDeleted(id) ==
    /\ id \in DOMAIN users
    /\ users' = DropRow(users, id)
    /\ UNCHANGED <<orders, nextOrderId, container, userStoreUp, ocall>>

\* The users store stops or resumes answering queries.
UserStoreFlips ==
    /\ userStoreUp' = ~userStoreUp
    /\ UNCHANGED <<orders, nextOrderId, container, users, ocall>>

\* The users a deployment may hold: each of the two, absent, active or inactive.
SeedUser(i) == IF i = 1 THEN UserRec("Ann", "a@x.com", 1) ELSE UserRec("Bob", "b@x.com", 1)
OrderUserTables ==
    UNION {[S -> {0, 1}] : S \in SUBSET UserIds}
SeededUsers(st) == [i \in DOMAIN st |-> [SeedUser(i) EXCEPT !.status = st[i]]]

\* The configurations of the container: each slot empty or the user adapter.
ContainerConfigs == [UserVerifier : {"nil", "userAdapter"}, UserGetter : {"nil", "userAdapter"}]

OrderFrame == UNCHANGED <<nextUserId, ucall, limiterVars, timeoutVars, pipelineVars, moreVars>>

OrderCreateValidateStep == \E p \in OrderCalls, u \in UserIds, q \in Quantities : OrderCreateValidate(p, u, q) /\ OrderFrame
OrderCreateInsertStep == \E p \in OrderCalls : OrderCreateInsert(p) /\ OrderFrame
OrderGetByIDStep == \E p \in OrderCalls, o \in OrderIds : OrderGetByID(p, o) /\ OrderFrame
OrderGetAllStep == \E p \in OrderCalls : OrderGetAll(p) /\ OrderFrame
OrderGetByUserIDStep == \E p \in OrderCalls, u \in UserIds : OrderGetByUserID(p, u) /\ OrderFrame
UserRowDeletedStep == \E u \in UserIds : UserRowDeleted(u) /\ OrderFrame
UserStoreFlipsStep == UserStoreFlips /\ OrderFrame

(***************************************************************************)
(* Order Update, Delete and GetByID over the orders table. The store is    *)
(* MySQL reached through go-sql-driver with the DSN of DatabaseConfig.DSN  *)
(* (no clientFoundRows), so RowsAffected counts the rows an UPDATE         *)
(* changed, not the rows it matched. gorm adds updated_at = now to every   *)
(* Updates of a model with an autoUpdateTime column; the column keeps      *)
(* milliseconds.                                                           *)
(***************************************************************************)
NumWriteCalls == 2   \* order write calls that run concurrently
MaxClock      == 2   \* milliseconds the clock runs through

WriteCalls == 1..NumWriteCalls

\* The values of Status (*int) a caller of OrderService.Update can pass: nil,
\* a status of the enum, and an integer outside the enum.
StatusInputs ==
    {<<>>, <<OrderStatusCompleted>>, <<OrderStatusCancelled + 1>>}

\* dto.UpdateOrderRequest: quantity and status, <<>> when nil.
UpdateOrderRequests ==
    [quantity : {<<>>, <<2>>}, status : StatusInputs]

NoOrder == OrderRec(0, 0, 0)

IdleWriteCall ==
    [pc |-> "idle", op |-> "none", id |-> 0, req |-> [quantity |-> <<>>, status |-> <<>>],
     order |-> NoOrder, code |-> "none"]

\* A call returns: the operation, the identifier and the code stay on record.
WriteReturn(c, code) ==
    [IdleWriteCall EXCEPT !.op = c.op, !.id = c.id, !.code = code]

\* common.HandleRepositoryError: ErrNotFound becomes the not-found code given,
\* any other error INTERNAL_ERROR.
HandleRepositoryError(found) == IF found THEN CodeOK ELSE ErrorCodeNotFound

\* orderRepository.Update, lines 41-48: the rows the UPDATE changed, i.e. the
\* row with this id when one of its columns, updated_at included, gets a
\* value different from the stored one.
RowsAffected(id, row, stamp) ==
    IF id \in DOMAIN orders /\ (orders[id] # row \/ orderStamp[id] # stamp) THEN 1 ELSE 0

\* orderService.Update, lines 97-100: FindByID.
OrderUpdateFind(p, id, req) ==
    /\ wcall[p].pc = "idle"
    /\ LET c0 == [IdleWriteCall EXCEPT !.op = "update", !.id = id, !.req = req]
       IN IF id \in DOMAIN orders
          THEN wcall' = [wcall EXCEPT ![p] = [c0 EXCEPT !.pc = "update_write", !.order = orders[id]]]
          ELSE wcall' = [wcall EXCEPT ![p] = WriteReturn(c0, HandleRepositoryError(FALSE))]
    /\ UNCHANGED <<orders, orderStamp, now>>

\* orderService.Update, lines 102-120, and orderRepository.Update: the
\* supplied fields are copied into the order read, the UPDATE writes the
\* columns and updated_at, and zero rows affected is ErrNotFound.
OrderUpdateWrite(p) ==
    /\ wcall[p].pc = "update_write"
    /\ LET c == wcall[p]
           row == OrderRec(c.order.userId,
                           IF c.req.quantity # <<>> THEN c.req.quantity[1] ELSE c.order.quantity,
                           IF c.req.status # <<>> THEN c.req.status[1] ELSE c.order.status)
           n == RowsAffected(c.id, row, now)
       IN /\ IF c.id \in DOMAIN orders
             THEN /\ orders' = [orders EXCEPT ![c.id] = [@ EXCEPT !.quantity = row.quantity,
                                                                 !.status = row.status]]
                  /\ orderStamp' = [orderStamp EXCEPT ![c.id] = now]
             ELSE UNCHANGED <<orders, orderStamp>>
          /\ wcall' = [wcall EXCEPT ![p] = WriteReturn(c, HandleRepositoryError(n # 0))]
    /\ UNCHANGED now

\* orderService.Delete, lines 125-128: FindByID.
OrderDeleteFind(p, id) ==
    /\ wcall[p].pc = "idle"
    /\ LET c0 == [IdleWriteCall EXCEPT !.op = "delete", !.id = id]
       IN IF id \in DOMAIN orders
          THEN wcall' = [wcall EXCEPT ![p] = [c0 EXCEPT !.pc = "delete_write"]]
          ELSE wcall' = [wcall EXCEPT ![p] = WriteReturn(c0, HandleRepositoryError(FALSE))]
    /\ UNCHANGED <<orders, orderStamp, now>>

\* orderService.Delete, lines 130-134, and orderRepository.Delete.
OrderDeleteWrite(p) ==
    /\ wcall[p].pc = "delete_write"
    /\ LET c == wcall[p] IN
       IF c.id \in DOMAIN orders
       THEN /\ orders' = [o \in (DOMAIN orders) \ {c.id} |-> orders[o]]
            /\ orderStamp' = [o \in (DOMAIN orderStamp) \ {c.id} |-> orderStamp[o]]
            /\ wcall' = [wcall EXCEPT ![p] = WriteReturn(c, CodeOK)]
       ELSE /\ UNCHANGED <<orders, orderStamp>>
            /\ wcall' = [wcall EXCEPT ![p] = WriteReturn(c, HandleRepositoryError(FALSE))]
    /\ UNCHANGED now

\* orderService.GetByID, lines 138-141: FindByID and its not-found mapping.
OrderFindByID(p, id) ==
    /\ wcall[p].pc = "idle"
    /\ LET c0 == [IdleWriteCall EXCEPT !.op = "getbyid", !.id = id]
       IN wcall' = [wcall EXCEPT ![p] = WriteReturn(c0, HandleRepositoryError(id \in DOMAIN orders))]
    /\ UNCHANGED <<orders, orderStamp, now>>

\* A millisecond passes.
ClockTick ==
    /\ now < MaxClock
    /\ now' = now + 1
    /\ UNCHANGED <<orders, orderStamp, wcall>>

\* The orders stored when the calls start: one or two, written before the
\* current millisecond.
SeedOrderTables ==
    {[o \in S |-> OrderRec(1, 1, OrderStatusPending)] : S \in {{1}, {1, 2}}}

WriteFrame ==
    UNCHANGED <<userVars, limiterVars, timeoutVars, pipelineVars,
                nextOrderId, container, userStoreUp, ocall, listVars, stageVars, errorVars,
                lateVars>>

OrderUpdateFindStep == \E p \in WriteCalls, o \in OrderIds, r \in UpdateOrderRequests : OrderUpdateFind(p, o, r) /\ WriteFrame
OrderUpdateWriteStep == \E p \in WriteCalls : OrderUpdateWrite(p) /\ WriteFrame
OrderDeleteFindStep == \E p \in WriteCalls, o \in OrderIds : OrderDeleteFind(p, o) /\ WriteFrame
OrderDeleteWriteStep == \E p \in WriteCalls : OrderDeleteWrite(p) /\ WriteFrame
OrderFindByIDStep == \E p \in WriteCalls, o \in OrderIds : OrderFindByID(p, o) /\ WriteFrame
ClockTickStep == ClockTick /\ WriteFrame

(***************************************************************************)
(* The list operations: User GetAll, Order GetAll and Order GetByUserID,   *)
(* from the query string to the response envelope. A query parameter is    *)
(* <<>> when absent and <<n>> when present. The table a call lists holds   *)
(* records with distinct creation times; for GetByUserID the user named    *)
(* exists, so the verification of orderService.GetByUserID passes.         *)
(***************************************************************************)
MaxRows == 3   \* records the listed table grows to

DefaultUserLimit       == 20    \* UserValidator.ValidatePaging
MaxPageLimit           == 100   \* binding max of PagingRequest.Limit and ValidatePaging
DefaultPaginationLimit == 10    \* common.DefaultPaginationLimit

PageInputs  == {<<>>, <<-1>>, <<0>>, <<1>>, <<2>>}
LimitInputs == {<<>>, <<0>>, <<1>>, <<2>>, <<MaxPageLimit>>, <<MaxPageLimit + 1>>}

Min(a, b) == IF a < b THEN a ELSE b

\* Form binding of an int field: the Go zero value when the parameter is absent.
FormInt(v) == IF v = <<>> THEN 0 ELSE v[1]

\* binding:"omitempty,min=1": a zero value is skipped, any other must be >= 1.
BindPageOK(n) == n = 0 \/ n >= 1
\* binding:"omitempty,min=1,max=100".
BindLimitOK(n) == n = 0 \/ (n >= 1 /\ n <= MaxPageLimit)

\* c.ShouldBindQuery(&req) for PagingRequest and OrderPagingRequest.
ShouldBindQuery(page, limit) ==
    [ok |-> BindPageOK(FormInt(page)) /\ BindLimitOK(FormInt(limit)),
     Page |-> FormInt(page), Limit |-> FormInt(limit)]

\* UserValidator.ValidatePaging, lines 76-85.
ValidatePaging(req) ==
    LET page == IF req.Page < 1 THEN 1 ELSE req.Page
        l1 == IF req.Limit < 1 THEN DefaultUserLimit ELSE req.Limit
        l2 == IF l1 > MaxPageLimit THEN MaxPageLimit ELSE l1
    IN [Page |-> page, Limit |-> l2]

\* common.ValidatePagination.
ValidatePagination(page, limit, defaultLimit) ==
    [Page |-> IF page <= 0 THEN 1 ELSE page,
     Limit |-> IF limit <= 0 THEN defaultLimit ELSE limit]

\* common.CalculateTotalPages.
CalculateTotalPages(total, limit) ==
    IF limit <= 0 THEN 0 ELSE (total + limit - 1) \div limit

\* userService.GetAll, line 149: int(total) / req.Limit.
UserTotalPages(total, limit) == total \div limit

\* common.SuccessResponseWithPagination, lines 106-109.
EnvelopeTotalPages(total, pageSize) ==
    (total \div pageSize) + (IF total % pageSize > 0 THEN 1 ELSE 0)

\* Field names and keywords as sequences of characters.
LowerCase == <<"a","b","c","d","e","f","g","h","i","j","k","l","m",
               "n","o","p","q","r","s","t","u","v","w","x","y","z">>
UpperCase == <<"A","B","C","D","E","F","G","H","I","J","K","L","M",
               "N","O","P","Q","R","S","T","U","V","W","X","Y","Z">>
Digits == {"0","1","2","3","4","5","6","7","8","9"}
Range(f) == {f[i] : i \in DOMAIN f}

\* entity.Column.CreatedAt.
ColumnCreatedAt == <<"c","r","e","a","t","e","d","_","a","t">>

\* strings.ToUpper.
ToUpperChar(ch) ==
    IF ch \in Range(LowerCase)
    THEN UpperCase[CHOOSE i \in DOMAIN LowerCase : LowerCase[i] = ch]
    ELSE ch
ToUpper(str) == [i \in DOMAIN str |-> ToUpperChar(str[i])]

\* strings.Contains.
Contains(str, sub) ==
    \E i \in 0..(Len(str) - Len(sub)) : SubSeq(str, i + 1, i + Len(sub)) = sub

\* validFieldNamePattern: ^[a-zA-Z_][a-zA-Z0-9_.]*$
MatchesFieldPattern(str) ==
    /\ str # <<>>
    /\ str[1] \in Range(LowerCase) \cup Range(UpperCase) \cup {"_"}
    /\ \A i \in DOMAIN str :
           str[i] \in Range(LowerCase) \cup Range(UpperCase) \cup Digits \cup {"_", "."}

\* sqlKeywords of isValidFieldName.
SqlKeywords ==
    { <<"S","E","L","E","C","T">>, <<"I","N","S","E","R","T">>, <<"U","P","D","A","T","E">>,
      <<"D","E","L","E","T","E">>, <<"D","R","O","P">>, <<"C","R","E","A","T","E">>,
      <<"A","L","T","E","R">>, <<"E","X","E","C">>, <<"E","X","E","C","U","T","E">>,
      <<"U","N","I","O","N">>, <<"S","C","R","I","P","T">>, <<"-","-">>, <<"/","*">>, <<"*","/">> }

\* isValidFieldName: the pattern matches and the upper-cased name contains
\* none of the keywords.
isValidFieldName(field) ==
    /\ field # <<>>
    /\ MatchesFieldPattern(field)
    /\ \A k \in SqlKeywords : ~Contains(ToUpper(field), k)

StoreBuilds == {"plain", "validated"}

\* Query.OrderBy: whether the ORDER BY clause is added to the query; the
\* first Query of package store adds it for any non-empty field, the second
\* only for a field isValidFieldName accepts.
OrderByApplies(build, field) ==
    IF build = "plain" THEN field # <<>> ELSE field # <<>> /\ isValidFieldName(field)

\* The sequences that hold every element of S once.
Orderings(S) ==
    {q \in [1..Cardinality(S) -> S] : \A i, j \in 1..Cardinality(S) : i # j => q[i] # q[j]}

\* The stored records by creation time, newest first.
Descending(S) ==
    CHOOSE q \in Orderings(S) : \A i, j \in 1..Cardinality(S) : i < j => q[i] > q[j]

\* Query.Find and the Offset / Limit of the order repository: the rows
\* offset+1 .. offset+limit of the result.
PageOf(rows, page, limit) ==
    LET offset == (page - 1) * limit
    IN SubSeq(rows, offset + 1, Min(offset + limit, Len(rows)))

NoListing ==
    [op |-> "none", page |-> <<>>, limit |-> <<>>, http |-> 0, effPage |-> 0, effLimit |-> 0,
     table |-> {}, total |-> 0, svcTotalPages |-> 0, envTotalPages |-> 0, data |-> <<>>]

\* RespondBadRequest after a failed binding: no query runs.
BadRequestListing(op, page, limit) ==
    [NoListing EXCEPT !.op = op, !.page = page, !.limit = limit, !.http = 400]

\* UserHandler.GetAll, userService.GetAll and userRepository.FindAllWithFilters.
UserHandlerGetAll(page, limit) ==
    LET b == ShouldBindQuery(page, limit) IN
    /\ IF ~b.ok
       THEN listing' = BadRequestListing("user_getall", page, limit)
       ELSE LET req == ValidatePaging(b)
                total == Cardinality(listRows)
            IN \E rows \in (IF OrderByApplies(storeBuild, ColumnCreatedAt)
                            THEN {Descending(listRows)} ELSE Orderings(listRows)) :
                   listing' = [op |-> "user_getall", page |-> page, limit |-> limit, http |-> 200,
                               effPage |-> req.Page, effLimit |-> req.Limit,
                               table |-> listRows, total |-> total,
                               svcTotalPages |-> UserTotalPages(total, req.Limit),
                               envTotalPages |-> EnvelopeTotalPages(total, req.Limit),
                               data |-> PageOf(rows, req.Page, req.Limit)]
    /\ UNCHANGED <<listRows, storeBuild>>

\* orderService.GetAll / GetByUserID from the page and limit the handler
\* passes, and the repository query with Order("created_at DESC").
OrderServiceList(op, page, limit, hPage, hLimit) ==
    LET v == ValidatePagination(hPage, hLimit, DefaultPaginationLimit)
        total == Cardinality(listRows)
    IN [op |-> op, page |-> page, limit |-> limit, http |-> 200,
        effPage |-> v.Page, effLimit |-> v.Limit, table |-> listRows, total |-> total,
        svcTotalPages |-> CalculateTotalPages(total, v.Limit),
        envTotalPages |-> EnvelopeTotalPages(total, v.Limit),
        data |-> PageOf(Descending(listRows), v.Page, v.Limit)]

\* OrderHandler.GetAll, lines 71-93.
OrderHandlerGetAll(page, limit) ==
    LET b == ShouldBindQuery(page, limit) IN
    /\ IF ~b.ok
       THEN listing' = BadRequestListing("order_getall", page, limit)
       ELSE listing' = OrderServiceList("order_getall", page, limit,
                                        IF b.Page <= 0 THEN 1 ELSE b.Page,
                                        IF b.Limit <= 0 THEN DefaultPaginationLimit ELSE b.Limit)
    /\ UNCHANGED <<listRows, storeBuild>>

\* OrderHandler.GetByUserID, lines 207-220: the query is bound only when a
\* page parameter is present, and a failed binding keeps page 1, limit 10.
OrderHandlerGetByUserID(page, limit) ==
    LET b == ShouldBindQuery(page, limit)
        use == page # <<>> /\ b.ok
        hPage == IF use /\ b.Page > 0 THEN b.Page ELSE 1
        hLimit == IF use /\ b.Limit > 0 THEN b.Limit ELSE DefaultPaginationLimit
    IN /\ listing' = OrderServiceList("order_getbyuser", page, limit, hPage, hLimit)
       /\ UNCHANGED <<listRows, storeBuild>>

\* A record is created in the listed table, later than every stored one.
ListInsert ==
    /\ Cardinality(listRows) < MaxRows
    /\ listRows' = listRows \cup {Cardinality(listRows) + 1}
    /\ UNCHANGED <<storeBuild, listing>>

ListFrame ==
    UNCHANGED <<userVars, limiterVars, timeoutVars, pipelineVars, orderVars, writeVars,
                stageVars, errorVars, lateVars>>

UserHandlerGetAllStep == \E pg \in PageInputs, l \in LimitInputs : UserHandlerGetAll(pg, l) /\ ListFrame
OrderHandlerGetAllStep == \E pg \in PageInputs, l \in LimitInputs : OrderHandlerGetAll(pg, l) /\ ListFrame
OrderHandlerGetByUserIDStep == \E pg \in PageInputs, l \in LimitInputs : OrderHandlerGetByUserID(pg, l) /\ ListFrame
ListInsertStep == ListInsert /\ ListFrame

(***************************************************************************)
(* One request through the stages of NewRouter, with the request's method, *)
(* headers and body and the deployment's configuration. Header values and  *)
(* the CORS_ORIGINS setting are sequences of tokens: an origin is one      *)
(* token, "," and " " are tokens of their own, <<>> is the empty string.   *)
(* The Timeout stage passes here; its deadline is the subject of the       *)
(* Timeout section above.                                                  *)
(***************************************************************************)
MaxRequestSize == 2   \* maxRequestSize of NewRouter, in bytes

OriginA  == <<"https://a.example">>
OriginB  == <<"https://b.example">>
Wildcard == <<"*">>

Methods       == {"GET", "POST", "PUT", "PATCH", "OPTIONS"}
OriginHeaders == {<<>>, OriginA, OriginB, Wildcard}
InboundIds    == {"", "req-1"}
BodySizes     == {0, 1, MaxRequestSize + 1}
JsonType      == <<"application/json">>
ContentTypes  == {<<>>, JsonType, <<"application/json", "; charset=utf-8">>, <<"text/plain">>}

\* Values of CORS_ORIGINS.
CorsSettings ==
    { <<>>, Wildcard, OriginA, <<" ", ",">>,
      <<"https://a.example", ",", " ", "https://b.example">>,
      <<"*", ",", "https://a.example">> }

HealthPaths == {"/health", "/health/ready", "/health/live"}
ApiPath     == "/api/v1/users"

\* Requests to the API routes, and GET requests to the health routes.
StageRequests ==
    [method : Methods, origin : OriginHeaders, requestId : InboundIds,
     bodySize : BodySizes, declared : BOOLEAN, contentType : ContentTypes, path : {ApiPath}]
    \cup
    [method : {"GET"}, origin : OriginHeaders, requestId : InboundIds,
     bodySize : {0}, declared : {TRUE}, contentType : {<<>>}, path : HealthPaths]

\* gin.RouterGroup.Group copies the handlers the parent holds when the group
\* is created: a group created after n calls of r.Use runs those n
\* middleware and then the route's handler.
GroupChain(n) == Append(SubSeq(Chain, 1, n), "handler")

\* The r.Use calls of NewRouter (lines 37-60) made before the group that
\* serves `path` is created: healthGroup := r.Group("") at line 63 and the
\* /api/v1 group at line 187 both come after the last of them.
UsedBeforeGroup(path) == Len(Chain) - 1

\* The handlers gin runs for a request to `path`.
RouteChain(path) == GroupChain(UsedBeforeGroup(path))

\* http.Request.ContentLength: 0 without a body, the declared length, or -1
\* when the body comes without a Content-Length (chunked).
ContentLength(req) ==
    IF req.bodySize = 0 THEN 0 ELSE IF req.declared THEN req.bodySize ELSE -1

\* strings.HasPrefix.
HasPrefix(str, prefix) ==
    Len(str) >= Len(prefix) /\ SubSeq(str, 1, Len(prefix)) = prefix

\* strings.Split.
RECURSIVE Split(_, _)
Split(str, sep) ==
    IF \A i \in DOMAIN str : str[i] # sep
    THEN <<str>>
    ELSE LET k == CHOOSE i \in DOMAIN str : str[i] = sep /\ \A j \in 1..(i - 1) : str[j] # sep
         IN <<SubSeq(str, 1, k - 1)>> \o Split(SubSeq(str, k + 1, Len(str)), sep)

\* strings.TrimSpace.
RECURSIVE TrimSpace(_)
TrimSpace(str) ==
    IF str = <<>> THEN str
    ELSE IF Head(str) = " " THEN TrimSpace(Tail(str))
    ELSE IF str[Len(str)] = " " THEN TrimSpace(SubSeq(str, 1, Len(str) - 1))
    ELSE str

\* middleware.ParseAllowedOrigins.
ParseAllowedOrigins(originsStr) ==
    IF originsStr = <<>> THEN <<Wildcard>>
    ELSE LET origins == Split(originsStr, ",")
             trimmed == [i \in DOMAIN origins |-> TrimSpace(origins[i])]
             NonEmpty(o) == o # <<>>
         IN SelectSeq(trimmed, NonEmpty)

\* An allow-list test in which a "*" entry admits every origin.
OriginInListOrWildcard(allowedOrigins, origin) ==
    \E i \in DOMAIN allowedOrigins : origin = allowedOrigins[i] \/ allowedOrigins[i] = Wildcard
\* CORSWithProductionConfig, lines 145-150: the origin equals an entry.
OriginInList(allowedOrigins, origin) ==
    \E i \in DOMAIN allowedOrigins : origin = allowedOrigins[i]

\* CORSWithProductionConfig, lines 133-152, and middleware.CORS, which
\* NewRouter installs outside production and which allows every origin.
CorsAllowed(dep, origin) ==
    LET allowedOrigins == ParseAllowedOrigins(dep.corsOrigins) IN
    IF ~dep.production THEN TRUE
    ELSE IF Len(allowedOrigins) = 0 \/ allowedOrigins = <<Wildcard>> THEN FALSE
    ELSE OriginInList(allowedOrigins, origin)

\* gin's abortIndex: past every handler of the chain.
AbortIndex == Len(Chain) + 1

IdleStage ==
    [pos |-> AbortIndex, ran |-> <<>>, by |-> "none", status |-> 0,
     allowOrigin |-> <<>>, xRequestId |-> <<>>]

\* A handler that returns without c.Abort(): gin goes on to the next one.
ReturnOnly(res) == [res EXCEPT !.pos = @ + 1]
\* c.Abort(): no handler after this one runs.
Abort(res) == [res EXCEPT !.pos = AbortIndex]

\* The stage ran and called c.Next().
Pass(res, name) == [res EXCEPT !.ran = Append(@, name), !.pos = @ + 1]
\* The stage ran, wrote a response and aborted.
Stop(res, name, status) ==
    Abort([res EXCEPT !.ran = Append(@, name), !.by = name, !.status = status])

AtStage(name) ==
    /\ sres.pos \in DOMAIN RouteChain(sreq.path)
    /\ RouteChain(sreq.path)[sres.pos] = name

NoRequest ==
    [method |-> "GET", origin |-> <<>>, requestId |-> "", bodySize |-> 0,
     declared |-> TRUE, contentType |-> <<>>, path |-> ApiPath]

\* A request arrives once the one before it is over.
NewRequest(req) ==
    /\ sres = IdleStage
    /\ sreq' = req
    /\ sres' = [IdleStage EXCEPT !.pos = 1]
    /\ UNCHANGED deployment

\* The chain has returned: the response is sent and gin takes the context
\* back.
RequestOver ==
    /\ sres.pos = AbortIndex /\ sres # IdleStage
    /\ sreq' = NoRequest
    /\ sres' = IdleStage
    /\ UNCHANGED deployment

SecurityHeadersStage ==
    /\ AtStage("SecurityHeaders")
    /\ sres' = Pass(sres, "SecurityHeaders")
    /\ UNCHANGED <<deployment, sreq>>

\* middleware.CORS / CORSWithProductionConfig: the Allow-Origin header,
\* then 204 and abort for OPTIONS.
CORSStage ==
    /\ AtStage("CORS")
    /\ LET hdr == IF CorsAllowed(deployment, sreq.origin)
                  THEN <<IF sreq.origin # <<>> THEN sreq.origin ELSE Wildcard>>
                  ELSE <<>>
           res == [sres EXCEPT !.allowOrigin = hdr]
       IN sres' = IF sreq.method = "OPTIONS" THEN Stop(res, "CORS", 204) ELSE Pass(res, "CORS")
    /\ UNCHANGED <<deployment, sreq>>

\* middleware.RequestID: the inbound identifier or a minted one, set on the
\* response.
RequestIDStage ==
    /\ AtStage("RequestID")
    /\ LET requestID == IF sreq.requestId = "" THEN "uuid" ELSE sreq.requestId
       IN sres' = Pass([sres EXCEPT !.xRequestId = <<requestID>>], "RequestID")
    /\ UNCHANGED <<deployment, sreq>>

\* RateLimitWithLimiter: 429 and abort when the client's limiter refuses.
RateLimitStage(allow) ==
    /\ AtStage("RateLimit")
    /\ sres' = IF allow THEN Pass(sres, "RateLimit") ELSE Stop(sres, "RateLimit", 429)
    /\ UNCHANGED <<deployment, sreq>>

TimeoutStage ==
    /\ AtStage("Timeout")
    /\ sres' = Pass(sres, "Timeout")
    /\ UNCHANGED <<deployment, sreq>>

\* RequestSizeValidation: 413 and abort when ContentLength exceeds maxSize.
RequestSizeValidationStage ==
    /\ AtStage("RequestSizeValidation")
    /\ sres' = IF ContentLength(sreq) > MaxRequestSize
               THEN Stop(sres, "RequestSizeValidation", 413)
               ELSE Pass(sres, "RequestSizeValidation")
    /\ UNCHANGED <<deployment, sreq>>

\* ContentTypeValidation: GET, DELETE and OPTIONS and requests with
\* ContentLength 0 pass; a missing Content-Type is 400, one that does not
\* start with application/json is 415.
ContentTypeValidationStage ==
    /\ AtStage("ContentTypeValidation")
    /\ sres' = IF sreq.method \in {"GET", "DELETE", "OPTIONS"} THEN Pass(sres, "ContentTypeValidation")
               ELSE IF ContentLength(sreq) = 0 THEN Pass(sres, "ContentTypeValidation")
               ELSE IF sreq.contentType = <<>> THEN Stop(sres, "ContentTypeValidation", 400)
               ELSE IF ~HasPrefix(sreq.contentType, JsonType) THEN Stop(sres, "ContentTypeValidation", 415)
               ELSE Pass(sres, "ContentTypeValidation")
    /\ UNCHANGED <<deployment, sreq>>

MetricsStage ==
    /\ AtStage("Metrics")
    /\ sres' = Pass(sres, "Metrics")
    /\ UNCHANGED <<deployment, sreq>>

LoggingStage ==
    /\ AtStage("Logging")
    /\ sres' = Pass(sres, "Logging")
    /\ UNCHANGED <<deployment, sreq>>

RecoveryStage ==
    /\ AtStage("Recovery")
    /\ sres' = Pass(sres, "Recovery")
    /\ UNCHANGED <<deployment, sreq>>

\* The route's handler answers, unless a response is already written.
HandlerStage ==
    /\ AtStage("handler")
    /\ sres' = [Pass(sres, "handler") EXCEPT
                   !.by = IF sres.by = "none" THEN "handler" ELSE @,
                   !.status = IF sres.status = 0 THEN 200 ELSE @]
    /\ UNCHANGED <<deployment, sreq>>

Deployments == [production : BOOLEAN, corsOrigins : CorsSettings]

StageFrame ==
    UNCHANGED <<userVars, limiterVars, timeoutVars, pipelineVars, orderVars, writeVars,
                listVars, errorVars, lateVars>>

NewRequestStep == \E req \in StageRequests : NewRequest(req) /\ StageFrame
RequestOverStep == RequestOver /\ StageFrame
SecurityHeadersStep == SecurityHeadersStage /\ StageFrame
CORSStep == CORSStage /\ StageFrame
RequestIDStep == RequestIDStage /\ StageFrame
RateLimitStep == \E allow \in BOOLEAN : RateLimitStage(allow) /\ StageFrame
TimeoutStep == TimeoutStage /\ StageFrame
RequestSizeValidationStep == RequestSizeValidationStage /\ StageFrame
ContentTypeValidationStep == ContentTypeValidationStage /\ StageFrame
MetricsStep == MetricsStage /\ StageFrame
LoggingStep == LoggingStage /\ StageFrame
RecoveryStep == RecoveryStage /\ StageFrame
HandlerStep == HandlerStage /\ StageFrame

(***************************************************************************)
(* The error responders of package common and the Recovery middleware. An  *)
(* error is <<>> for nil or <<text>> with the text err.Error() gives.      *)
(***************************************************************************)
GenericInternalMessage == "An internal error occurred"

\* What the store or the driver reports.
ErrorTexts ==
    {"dial tcp 10.0.0.5:3306: connect: connection refused",
     "Error 1062: Duplicate entry 'a@x.com' for key 'users.email'",
     "context deadline exceeded"}
Errors == {<<>>} \cup {<<t>> : t \in ErrorTexts}

\* The messages the services give NewServiceError.
ServiceMessages ==
    {"Failed to create user", "Failed to get user", "Failed to update user",
     "Failed to get orders", "User not found"}

\* common.ServiceError.
ServiceErrors ==
    [Err : Errors, Message : ServiceMessages,
     Code : {ErrorCodeInternalError, ErrorCodeNotFound, ErrorCodeEmailExists}]

NoErrorResponse ==
    [by |-> "none", err |-> <<>>, http |-> 0, code |-> "", message |-> ""]

\* common.InternalErrorResponse.
InternalErrorResponse(err) ==
    IF IsProductionMode
    THEN [code |-> ErrorCodeInternalError, message |-> GenericInternalMessage]
    ELSE [code |-> ErrorCodeInternalError,
          message |-> IF err # <<>> THEN err[1] ELSE "Internal server error"]

\* common.ServiceErrorResponse.
ServiceErrorResponse(svcErr) ==
    IF IsProductionMode /\ svcErr.Code = ErrorCodeInternalError
    THEN [code |-> svcErr.Code, message |-> GenericInternalMessage]
    ELSE [code |-> svcErr.Code, message |-> svcErr.Message]

\* common.RespondInternalError, and RespondServiceError for an error that is
\* not a ServiceError.
RespondInternalError(err) ==
    /\ LET r == InternalErrorResponse(err)
       IN eresp' = [by |-> "RespondInternalError", err |-> err, http |-> 500,
                    code |-> r.code, message |-> r.message]
    /\ UNCHANGED IsProductionMode

\* common.RespondServiceError for a ServiceError.
RespondServiceError(svcErr) ==
    /\ LET r == ServiceErrorResponse(svcErr)
       IN eresp' = [by |-> "RespondServiceError", err |-> svcErr.Err,
                    http |-> mapErrorCodeToHTTPStatus(svcErr.Code),
                    code |-> r.code, message |-> r.message]
    /\ UNCHANGED IsProductionMode

\* middleware.Recovery: the same body in both modes, without an error code.
RecoveryResponds(recovered) ==
    /\ eresp' = [by |-> "Recovery", err |-> recovered, http |-> 500,
                 code |-> "", message |-> "Internal server error"]
    /\ UNCHANGED IsProductionMode

ErrorFrame ==
    UNCHANGED <<userVars, limiterVars, timeoutVars, pipelineVars, orderVars, writeVars,
                listVars, stageVars, lateVars>>

RespondInternalErrorStep == \E e \in Errors : RespondInternalError(e) /\ ErrorFrame
RespondServiceErrorStep == \E e \in ServiceErrors : RespondServiceError(e) /\ ErrorFrame
RecoveryRespondsStep == \E e \in Errors \ {<<>>} : RecoveryResponds(e) /\ ErrorFrame

(***************************************************************************)
(* The ModuleContainer and its setters. A slot holds "nil" or the name of  *)
(* an implementation; the combined UserService slot holds the pair a       *)
(* combinedUserService embeds.                                             *)
(***************************************************************************)
MaxSlotWrites == 2   \* assignments of one slot the model follows

Nil == "nil"

\* The implementations a caller can register and the interfaces they have.
UserImpls == {"userAdapter", "otherAdapter", "verifierOnly", "getterOnly"}
ImplementsVerifier(impl) == impl \in {"userAdapter", "otherAdapter", "verifierOnly"}
ImplementsGetter(impl) == impl \in {"userAdapter", "otherAdapter", "getterOnly"}

Slots == {"UserVerifier", "UserGetter", "UserService", "OrderService"}

\* The zero value of the UserService slot.
NoCombined == [UserVerifier |-> Nil, UserGetter |-> Nil]

\* NewModuleContainer: &ModuleContainer{}.
NewModuleContainer ==
    [UserVerifier |-> Nil, UserGetter |-> Nil, UserService |-> NoCombined, OrderService |-> Nil]

NoWrites == [s \in Slots |-> 0]

\* ModuleContainer.SetUserVerifier.
SetUserVerifier(c, verifier) ==
    IF ImplementsGetter(verifier)
    THEN [c EXCEPT !.UserVerifier = verifier,
                   !.UserService = [UserVerifier |-> verifier, UserGetter |-> verifier]]
    ELSE [c EXCEPT !.UserVerifier = verifier]

\* ModuleContainer.SetUserGetter.
SetUserGetter(c, getter) ==
    IF ImplementsVerifier(getter)
    THEN [c EXCEPT !.UserGetter = getter,
                   !.UserService = [UserVerifier |-> getter, UserGetter |-> getter]]
    ELSE [c EXCEPT !.UserGetter = getter]

\* ModuleContainer.SetOrderService.
SetOrderService(c, orderService) == [c EXCEPT !.OrderService = orderService]

\* The assignment counts after a setter that writes the slots in S.
Count(S) == [s \in Slots |-> IF s \in S THEN slotWrites[s] + 1 ELSE slotWrites[s]]

\* Some caller invokes SetUserVerifier.
CallSetUserVerifier(verifier) ==
    LET S == {"UserVerifier"} \cup (IF ImplementsGetter(verifier) THEN {"UserService"} ELSE {})
    IN /\ ImplementsVerifier(verifier)
       /\ \A s \in S : slotWrites[s] < MaxSlotWrites
       /\ registry' = SetUserVerifier(registry, verifier)
       /\ slotWrites' = Count(S)

\* Some caller invokes SetUserGetter.
CallSetUserGetter(getter) ==
    LET S == {"UserGetter"} \cup (IF ImplementsVerifier(getter) THEN {"UserService"} ELSE {})
    IN /\ ImplementsGetter(getter)
       /\ \A s \in S : slotWrites[s] < MaxSlotWrites
       /\ registry' = SetUserGetter(registry, getter)
       /\ slotWrites' = Count(S)

\* Some caller invokes SetOrderService.
CallSetOrderService ==
    /\ slotWrites["OrderService"] < MaxSlotWrites
    /\ registry' = SetOrderService(registry, "orderAdapter")
    /\ slotWrites' = Count({"OrderService"})

RegistryFrame ==
    UNCHANGED <<userVars, limiterVars, timeoutVars, pipelineVars, orderVars, writeVars,
                listVars, stageVars, errorVars, processVars>>

CallSetUserVerifierStep == \E i \in UserImpls : CallSetUserVerifier(i) /\ RegistryFrame
CallSetUserGetterStep == \E i \in UserImpls : CallSetUserGetter(i) /\ RegistryFrame
CallSetOrderServiceStep == CallSetOrderService /\ RegistryFrame

(***************************************************************************)
(* The process from main: the database connection, NewRouter with the      *)
(* registration of the modules, the server serving requests, and the       *)
(* shutdown after SIGINT / SIGTERM.                                        *)
(***************************************************************************)
NumServerReqs == 3   \* requests the server has in flight at once

ServerReqs == 1..NumServerReqs

\* The statements of start-up that touch the container, in program order:
\* NewRouter line 184, user.RegisterRoutes lines 30-31 (NewRouter line 195),
\* order.RegisterRoutes line 29 (NewRouter line 199).
StartupOrderFirst ==
    <<"NewModuleContainer", "SetOrderService", "SetUserVerifier", "SetUserGetter">>
StartupSteps ==
    <<"NewModuleContainer", "SetUserVerifier", "SetUserGetter", "SetOrderService">>

IdleServerReq == [st |-> "idle", db |-> "none", verifier |-> Nil]

\* database.NewConnection and AutoMigrate.
OpenDatabase ==
    /\ pcMain = "start"
    /\ dbOpen' = TRUE
    /\ pcMain' = StartupSteps[1]
    /\ UNCHANGED <<registry, slotWrites, listening, inflight>>

\* The next start-up statement on the container.
StartupStep ==
    /\ \E i \in DOMAIN StartupSteps : StartupSteps[i] = pcMain
    /\ LET step == pcMain
           c == CASE step = "NewModuleContainer" -> NewModuleContainer
                  [] step = "SetUserVerifier"    -> SetUserVerifier(registry, "userAdapter")
                  [] step = "SetUserGetter"      -> SetUserGetter(registry, "userAdapter")
                  [] step = "SetOrderService"    -> SetOrderService(registry, "orderAdapter")
           S == CASE step = "NewModuleContainer" -> {}
                  [] step = "SetUserVerifier"    -> {"UserVerifier", "UserService"}
                  [] step = "SetUserGetter"      -> {"UserGetter", "UserService"}
                  [] step = "SetOrderService"    -> {"OrderService"}
       IN /\ registry' = c
          /\ slotWrites' = Count(S)
    /\ LET i == CHOOSE j \in DOMAIN StartupSteps : StartupSteps[j] = pcMain
       IN pcMain' = IF i = Len(StartupSteps) THEN "routed" ELSE StartupSteps[i + 1]
    /\ UNCHANGED <<dbOpen, listening, inflight>>

\* main: go srv.Start(), then <-quit.
ServerStart ==
    /\ pcMain = "routed"
    /\ listening' = TRUE
    /\ pcMain' = "waiting"
    /\ UNCHANGED <<registry, slotWrites, dbOpen, inflight>>

Running == pcMain \notin {"exited", "killed"}

\* The server accepts a request.
Accept(r) ==
    /\ Running /\ listening
    /\ inflight[r].st = "idle"
    /\ inflight' = [inflight EXCEPT ![r] = [IdleServerReq EXCEPT !.st = "accepted"]]
    /\ UNCHANGED <<registry, slotWrites, pcMain, dbOpen, listening>>

\* The request's handler reads the container and runs its query on the
\* connection pool.
HandlerQueries(r) ==
    /\ Running
    /\ inflight[r].st = "accepted"
    /\ inflight' = [inflight EXCEPT ![r] =
                       [st |-> "queried", db |-> IF dbOpen THEN "open" ELSE "closed",
                        verifier |-> registry.UserVerifier]]
    /\ UNCHANGED <<registry, slotWrites, pcMain, dbOpen, listening>>

\* The response is written and the request is over.
Respond(r) ==
    /\ Running
    /\ inflight[r].st = "queried"
    /\ inflight' = [inflight EXCEPT ![r] = IdleServerReq]
    /\ UNCHANGED <<registry, slotWrites, pcMain, dbOpen, listening>>

\* SIGINT or SIGTERM arrives on quit.
Signal ==
    /\ pcMain = "waiting"
    /\ pcMain' = "signalled"
    /\ UNCHANGED <<registry, slotWrites, dbOpen, listening, inflight>>

\* main, "Close database connection": sqlDB.Close().
CloseDatabase ==
    /\ pcMain = "signalled"
    /\ dbOpen' = FALSE
    /\ pcMain' = "db_closed"
    /\ UNCHANGED <<registry, slotWrites, listening, inflight>>

\* srv.Shutdown(ctx) begins: the listeners are closed.
ShutdownBegins ==
    /\ pcMain = "db_closed"
    /\ listening' = FALSE
    /\ pcMain' = "draining"
    /\ UNCHANGED <<registry, slotWrites, dbOpen, inflight>>

\* srv.Shutdown(ctx) returns nil once no request is in flight.
ShutdownReturns ==
    /\ pcMain = "draining"
    /\ \A r \in ServerReqs : inflight[r].st = "idle"
    /\ pcMain' = "exited"
    /\ UNCHANGED <<registry, slotWrites, dbOpen, listening, inflight>>

\* The 30 seconds of ctx pass first: Shutdown returns an error and
\* logger.Fatal ends the process with requests in flight.
ShutdownTimesOut ==
    /\ pcMain = "draining"
    /\ \E r \in ServerReqs : inflight[r].st # "idle"
    /\ pcMain' = "killed"
    /\ UNCHANGED <<registry, slotWrites, dbOpen, listening, inflight>>

ProcessFrame ==
    UNCHANGED <<userVars, limiterVars, timeoutVars, pipelineVars, orderVars, writeVars,
                listVars, stageVars, errorVars>>

OpenDatabaseStep == OpenDatabase /\ ProcessFrame
StartupStepStep == StartupStep /\ ProcessFrame
ServerStartStep == ServerStart /\ ProcessFrame
AcceptStep == \E r \in ServerReqs : Accept(r) /\ ProcessFrame
HandlerQueriesStep == \E r \in ServerReqs : HandlerQueries(r) /\ ProcessFrame
RespondStep == \E r \in ServerReqs : Respond(r) /\ ProcessFrame
SignalStep == Signal /\ ProcessFrame
CloseDatabaseStep == CloseDatabase /\ ProcessFrame
ShutdownBeginsStep == ShutdownBegins /\ ProcessFrame
ShutdownReturnsStep == ShutdownReturns /\ ProcessFrame
ShutdownTimesOutStep == ShutdownTimesOut /\ ProcessFrame

(***************************************************************************)
(* User Delete on a database that also holds orders.  The orders table     *)
(* carries the owner's identifier as a plain column (no foreign key, no    *)
(* cascade, no hook on entity.User), and userRepository.Delete issues one  *)
(* DELETE on the users table.                                              *)
(***************************************************************************)
\* The orders table after the DELETE on users, had the column been a
\* foreign key with ON DELETE CASCADE.
OrdersCascaded(ords, id) ==
    LET keep == {o \in DOMAIN ords : ords[o].userId # id}
    IN [o \in keep |-> ords[o]]

\* The orders table after userRepository.Delete(id) ran its statement.
OrdersAfterUserDelete(ords, id) == ords

\* userService.Delete, lines 109-116, seen on the whole database.
UserDeleteWriteDb(p) ==
    /\ UserDeleteWrite(p)
    /\ orders' = IF ucall[p].id \in DOMAIN users
                 THEN OrdersAfterUserDelete(orders, ucall[p].id)
                 ELSE orders

\* The orders a deployment holds when the calls start: none, or orders of
\* stored users.
SeedOwnedOrders(tbl) ==
    {<<>>} \cup {[o \in 1..n |-> OrderRec(owner[o], 1, OrderStatusPending)] :
                    n \in 1..MaxOrders, owner \in [1..MaxOrders -> DOMAIN tbl]}

UserOrdersFrame ==
    UNCHANGED <<limiterVars, timeoutVars, pipelineVars, nextOrderId, container,
                userStoreUp, ocall, moreVars>>

UserDeleteWriteDbStep == \E p \in UserCalls : UserDeleteWriteDb(p) /\ UserOrdersFrame

(***************************************************************************)
(* Initial states and specifications.                                      *)
(***************************************************************************)
QuietUser ==
    /\ nextUserId = 1
    /\ ucall = [p \in UserCalls |-> IdleUserCall]
QuietLimiter ==
    /\ limiters = [ip \in Clients |-> 0]
    /\ buckets = <<>>
    /\ lcall = [r \in LimiterReqs |-> IdleLimiterCall]
    /\ burstSeen = [ip \in Clients |-> NoBurst]
    /\ usedSince = {}
QuietTimeout == treq = [r \in TimeoutReqs |-> NewTimeoutReq]
QuietPipeline ==
    /\ preq = [r \in PipelineReqs |-> NewPipelineReq]
    /\ processAlive = TRUE
QuietOrder ==
    /\ orders = <<>>
    /\ nextOrderId = 1
    /\ container = [UserVerifier |-> "userAdapter", UserGetter |-> "userAdapter"]
    /\ userStoreUp = TRUE
    /\ ocall = [p \in OrderCalls |-> IdleOrderCall]

QuietWrite ==
    /\ orderStamp = <<>>
    /\ now = 0
    /\ wcall = [p \in WriteCalls |-> IdleWriteCall]
QuietList ==
    /\ listRows = {}
    /\ storeBuild = "validated"
    /\ listing = NoListing
QuietStages ==
    /\ deployment = [production |-> FALSE, corsOrigins |-> <<>>]
    /\ sreq = NoRequest
    /\ sres = IdleStage
QuietErrors ==
    /\ IsProductionMode = FALSE
    /\ eresp = NoErrorResponse
QuietRegistry ==
    /\ registry = NewModuleContainer
    /\ slotWrites = NoWrites
QuietProcess ==
    /\ pcMain = "start"
    /\ dbOpen = FALSE
    /\ listening = FALSE
    /\ inflight = [r \in ServerReqs |-> IdleServerReq]
QuietLate == QuietRegistry /\ QuietProcess
QuietMore == QuietWrite /\ QuietList /\ QuietStages /\ QuietErrors /\ QuietLate

InitUser ==
    /\ users \in SeedUserTables
    /\ nextUserId = Cardinality(DOMAIN users) + 1
    /\ ucall = [p \in UserCalls |-> IdleUserCall]
    /\ QuietLimiter /\ QuietTimeout /\ QuietPipeline /\ QuietOrder /\ QuietMore

NextUser ==
    \/ UserCreateCheckStep
    \/ UserCreateInsertStep
    \/ UserUpdateFindStep
    \/ UserUpdateCheckStep
    \/ UserUpdateWriteStep
    \/ UserDeleteFindStep
    \/ UserDeleteWriteStep

SpecUser == InitUser /\ [][NextUser]_vars

InitLimiter ==
    /\ users = <<>>
    /\ QuietUser /\ QuietLimiter /\ QuietTimeout /\ QuietPipeline /\ QuietOrder /\ QuietMore

NextLimiter ==
    \/ LimiterLookupStep
    \/ LimiterInsertStep
    \/ LimiterAllowStep
    \/ CleanupStep
    \/ LimiterTickStep

SpecLimiter == InitLimiter /\ [][NextLimiter]_vars

InitTimeout == InitLimiter

NextTimeout ==
    \/ TimeoutEnterStep
    \/ HandlerRespondsStep
    \/ HandlerCompletesStep
    \/ DeadlineElapsesStep
    \/ SelectDoneStep
    \/ SelectTimeoutStep
    \/ TimeoutReturnStep

SpecTimeout == InitTimeout /\ [][NextTimeout]_vars

InitPipeline == InitLimiter

NextPipeline ==
    \/ StageDownStep
    \/ StageUpStep

SpecPipeline == InitPipeline /\ [][NextPipeline]_vars

InitOrder ==
    /\ \E st \in OrderUserTables : users = SeededUsers(st)
    /\ QuietUser /\ QuietLimiter /\ QuietTimeout /\ QuietPipeline /\ QuietMore
    /\ orders = <<>>
    /\ nextOrderId = 1
    /\ container \in ContainerConfigs
    /\ userStoreUp = TRUE
    /\ ocall = [p \in OrderCalls |-> IdleOrderCall]

NextOrder ==
    \/ OrderCreateValidateStep
    \/ OrderCreateInsertStep
    \/ OrderGetByIDStep
    \/ OrderGetAllStep
    \/ OrderGetByUserIDStep
    \/ UserRowDeletedStep
    \/ UserStoreFlipsStep

SpecOrder == InitOrder /\ [][NextOrder]_vars

InitWrite ==
    /\ users = <<>>
    /\ QuietUser /\ QuietLimiter /\ QuietTimeout /\ QuietPipeline
    /\ orders \in SeedOrderTables
    /\ nextOrderId = Cardinality(DOMAIN orders) + 1
    /\ container = [UserVerifier |-> "userAdapter", UserGetter |-> "userAdapter"]
    /\ userStoreUp = TRUE
    /\ ocall = [p \in OrderCalls |-> IdleOrderCall]
    /\ orderStamp = [o \in DOMAIN orders |-> 0]
    /\ now = 1
    /\ wcall = [p \in WriteCalls |-> IdleWriteCall]
    /\ QuietList /\ QuietStages /\ QuietErrors /\ QuietLate

NextWrite ==
    \/ OrderUpdateFindStep
    \/ OrderUpdateWriteStep
    \/ OrderDeleteFindStep
    \/ OrderDeleteWriteStep
    \/ OrderFindByIDStep
    \/ ClockTickStep

SpecWrite == InitWrite /\ [][NextWrite]_vars

InitList ==
    /\ users = <<>>
    /\ QuietUser /\ QuietLimiter /\ QuietTimeout /\ QuietPipeline /\ QuietOrder /\ QuietWrite
    /\ listRows = {}
    /\ storeBuild \in StoreBuilds
    /\ listing = NoListing
    /\ QuietStages /\ QuietErrors /\ QuietLate

NextList ==
    \/ UserHandlerGetAllStep
    \/ OrderHandlerGetAllStep
    \/ OrderHandlerGetByUserIDStep
    \/ ListInsertStep

SpecList == InitList /\ [][NextList]_vars

InitStages ==
    /\ users = <<>>
    /\ QuietUser /\ QuietLimiter /\ QuietTimeout /\ QuietPipeline /\ QuietOrder
    /\ QuietWrite /\ QuietList
    /\ deployment \in Deployments
    /\ sreq = NoRequest
    /\ sres = IdleStage
    /\ QuietErrors /\ QuietLate

NextStages ==
    \/ NewRequestStep
    \/ SecurityHeadersStep
    \/ CORSStep
    \/ RequestIDStep
    \/ RateLimitStep
    \/ TimeoutStep
    \/ RequestSizeValidationStep
    \/ ContentTypeValidationStep
    \/ MetricsStep
    \/ LoggingStep
    \/ RecoveryStep
    \/ HandlerStep
    \/ RequestOverStep

SpecStages == InitStages /\ [][NextStages]_vars

InitErrors ==
    /\ users = <<>>
    /\ QuietUser /\ QuietLimiter /\ QuietTimeout /\ QuietPipeline /\ QuietOrder
    /\ QuietWrite /\ QuietList /\ QuietStages
    /\ IsProductionMode \in BOOLEAN
    /\ eresp = NoErrorResponse
    /\ QuietLate

NextErrors ==
    \/ RespondInternalErrorStep
    \/ RespondServiceErrorStep
    \/ RecoveryRespondsStep

SpecErrors == InitErrors /\ [][NextErrors]_vars

\* The container in the hands of arbitrary callers of its setters.
InitContainer ==
    /\ users = <<>>
    /\ QuietUser /\ QuietLimiter /\ QuietTimeout /\ QuietPipeline /\ QuietOrder
    /\ QuietWrite /\ QuietList /\ QuietStages /\ QuietErrors
    /\ registry = NewModuleContainer
    /\ slotWrites = NoWrites
    /\ QuietProcess

NextContainer ==
    \/ CallSetUserVerifierStep
    \/ CallSetUserGetterStep
    \/ CallSetOrderServiceStep

SpecContainer == InitContainer /\ [][NextContainer]_vars

InitProcess ==
    /\ users = <<>>
    /\ QuietUser /\ QuietLimiter /\ QuietTimeout /\ QuietPipeline /\ QuietOrder
    /\ QuietWrite /\ QuietList /\ QuietStages /\ QuietErrors
    /\ QuietRegistry /\ QuietProcess

NextProcess ==
    \/ OpenDatabaseStep
    \/ StartupStepStep
    \/ ServerStartStep
    \/ AcceptStep
    \/ HandlerQueriesStep
    \/ RespondStep
    \/ SignalStep
    \/ CloseDatabaseStep
    \/ ShutdownBeginsStep
    \/ ShutdownReturnsStep
    \/ ShutdownTimesOutStep

SpecProcess == InitProcess /\ [][NextProcess]_vars

InitUserOrders ==
    /\ \E st \in [UserIds -> {0, 1}] : users = SeededUsers(st)
    /\ nextUserId = MaxUsers + 1
    /\ ucall = [p \in UserCalls |-> IdleUserCall]
    /\ QuietLimiter /\ QuietTimeout /\ QuietPipeline /\ QuietMore
    /\ orders \in SeedOwnedOrders(users)
    /\ nextOrderId = Len(orders) + 1
    /\ container = [UserVerifier |-> "userAdapter", UserGetter |-> "userAdapter"]
    /\ userStoreUp = TRUE
    /\ ocall = [p \in OrderCalls |-> IdleOrderCall]

NextUserOrders ==
    \/ UserDeleteFindStep
    \/ UserDeleteWriteDbStep

SpecUserOrders == InitUserOrders /\ [][NextUserOrders]_vars

NextLate == NextContainer \/ NextProcess \/ NextUserOrders

NextMore == NextWrite \/ NextList \/ NextStages \/ NextErrors \/ NextLate

\* The whole server: every subsystem's steps.
Init == InitUser
Next == NextUser \/ NextLimiter \/ NextTimeout \/ NextPipeline \/ NextOrder \/ NextMore
Spec == Init /\ [][Next]_vars


(***************************************************************************)
(* Properties.                                                             *)
(***************************************************************************)

\* C1: after any interleaving of User Create, Update and Delete, no two
\* stored user records have the same email.
C1_EmailUnique ==
    \A i, j \in DOMAIN users : i # j => users[i].email # users[j].email

\* C1 witness: a Create passed the service's existence check and was then
\* refused by the store's unique index, a row holding its email by then.
C1_IndexRefusedInsert ==
    \E p \in UserCalls :
        /\ ucall[p].op = "create" /\ ucall[p].pc = "idle"
        /\ ucall[p].held /\ ucall[p].code = ErrorCodeInternalError
        /\ DOMAIN users # {}

\* C2: every User Create whose email is held by a stored record, also one
\* inserted by a concurrent Create between this call's check and its insert,
\* returns Conflict (EMAIL_EXISTS, HTTP 400) and stores no second record
\* with that email.
C2_DuplicateCreateConflicts ==
    /\ \A p \in UserCalls :
          (ucall[p].op = "create" /\ ucall[p].pc = "idle" /\ ucall[p].held)
          => /\ ucall[p].code = ErrorCodeEmailExists
             /\ mapErrorCodeToHTTPStatus(ucall[p].code) = 400
    /\ \A i, j \in DOMAIN users : users[i].email = users[j].email => i = j

\* C3: a successful User Update leaves each of name, email and status equal
\* to the supplied value when the field was supplied (status 0 included) and
\* to the value stored before the update when it was omitted.
C3_UpdateOverwritesExactly ==
    [][\A p \in UserCalls :
          (ucall[p].pc = "update_write" /\ ucall'[p].pc = "idle" /\ ucall'[p].code = CodeOK)
          => LET req == ucall[p].req
                 pre == ucall[p].read
                 post == users'[ucall[p].id]
             IN /\ post.name = (IF req.name # "" THEN req.name ELSE pre.name)
                /\ post.email = (IF req.email # "" THEN req.email ELSE pre.email)
                /\ post.status = (IF req.status # <<>> THEN req.status[1] ELSE pre.status)]_vars

\* C4: for one client address, at most Burst requests are admitted while no
\* time elapses, whether or not the sweep runs between them.
C4_BurstBounded ==
    \A ip \in Clients : burstSeen[ip].admitted <= Burst

\* C5: a request whose handler had not completed when the deadline elapsed
\* is answered with exactly the Timeout (504) response, which the abandoned
\* handler neither precedes, follows nor alters.
C5_ExactlyOneTimeoutResponse ==
    \A r \in TimeoutReqs :
        (treq[r].main = "returned" /\ treq[r].late)
        => treq[r].wireStatus = 504 /\ treq[r].wireBody = <<"timeout">>

\* C6: a panic raised in any stage of the chain or in the handler is caught
\* and answered with a 500 response, and never terminates the server process.
C6_PanicsCaught ==
    /\ processAlive
    /\ \A r \in PipelineReqs :
          (preq[r].panicked /\ preq[r].dir = "done") => preq[r].status = 500

\* C7: with a User capability registered, Order Create for a userID that has
\* no user record returns NotFound (USER_NOT_FOUND, 404) and persists no order.
C7_CreateForUnknownUserNotFound ==
    \A p \in OrderCalls :
        LET c == ocall[p] IN
        (/\ c.op = "create"
         /\ container.UserVerifier # "nil" \/ container.UserGetter # "nil"
         /\ c.seen.up
         /\ c.userId \notin c.seen.ids)
        => /\ c.pc = "idle"
           /\ c.code = ErrorCodeUserNotFound
           /\ c.http = 404
           /\ ~c.inserted
           /\ c.orderId \notin DOMAIN orders

\* C7 witness: a Create for an absent user has returned USER_NOT_FOUND.
C7_UnknownUserRejected ==
    \E p \in OrderCalls :
        /\ ocall[p].op = "create" /\ ocall[p].pc = "idle"
        /\ ocall[p].seen.up /\ ocall[p].userId \notin ocall[p].seen.ids
        /\ ocall[p].code = ErrorCodeUserNotFound

\* The step in which call p validates the user of a Create.
IsCreateValidate(p) ==
    /\ ocall[p].pc = "idle"
    /\ ocall'[p] # ocall[p]
    /\ ocall'[p].op = "create"

EnrichmentDegraded(c) ==
    \A o \in DOMAIN c.resp :
        (container.UserGetter = "nil" \/ ~c.seen.up \/ c.resp[o].userId \notin c.seen.ids)
        => c.resp[o].userName = "" /\ c.resp[o].userEmail = ""

\* A read call whose order data could be read.
ReadWithData(c) ==
    /\ c.pc = "idle"
    /\ c.op \in {"getall", "getbyuser"} \/ (c.op = "getbyid" /\ c.readable # {})

\* C9 as claimed: GetByID, GetAll and GetByUserID succeed whenever the order
\* data can be read, with empty userName and userEmail when the UserGetter is
\* unregistered or fails; the lookup failure is never propagated.
C9_ReadsNeverFailOnUserLookup ==
    \A p \in OrderCalls :
        ReadWithData(ocall[p])
        => /\ ocall[p].code = CodeOK
           /\ DOMAIN ocall[p].resp = ocall[p].readable
           /\ EnrichmentDegraded(ocall[p])

\* GetByUserID's existence verification passed: no UserVerifier is
\* registered, or the store answered and holds the user.
VerificationPasses(c) ==
    container.UserVerifier = "nil" \/ (c.seen.up /\ c.userId \in c.seen.ids)

\* C9 as amended: GetByID and GetAll succeed whenever the order data can be
\* read, GetByUserID whenever in addition its existence verification passes;
\* in each such result the orders carry empty userName and userEmail when the
\* UserGetter is unregistered or fails, and that failure is not propagated.
C9_ReadsDegradeAfterVerification ==
    \A p \in OrderCalls :
        (ReadWithData(ocall[p]) /\ (ocall[p].op = "getbyuser" => VerificationPasses(ocall[p])))
        => /\ ocall[p].code = CodeOK
           /\ ocall[p].http = 200
           /\ DOMAIN ocall[p].resp = ocall[p].readable
           /\ EnrichmentDegraded(ocall[p])

\* C9 witness: with the UserGetter registered, a GetAll returned an order
\* whose owner no longer exists, with empty enrichment fields.
C9_DegradedRead ==
    /\ container.UserGetter # "nil"
    /\ \E p \in OrderCalls :
          /\ ocall[p].op = "getall" /\ ocall[p].pc = "idle" /\ ocall[p].code = CodeOK
          /\ \E o \in DOMAIN ocall[p].resp :
                /\ ocall[p].resp[o].userId \notin ocall[p].seen.ids
                /\ ocall[p].resp[o].userName = ""

\* A Create that has succeeded, or has passed validation and is about to insert.
CreateSucceeds(c) ==
    \/ c.pc = "create_insert"
    \/ c.pc = "idle" /\ c.code = CodeOK /\ c.http = 201 /\ c.inserted

C11_UnknownUserNoOrdersQuery ==
    \A p \in OrderCalls :
        LET c == ocall[p] IN
        (/\ c.op = "getbyuser" /\ c.pc = "idle"
         /\ container.UserVerifier # "nil"
         /\ c.seen.up
         /\ c.userId \notin c.seen.ids)
        => /\ c.code = ErrorCodeUserNotFound
           /\ c.http = 404
           /\ ~c.queried
           /\ c.resp = <<>>

\* C11 witness: such a GetByUserID has returned while orders of that user
\* were stored.
C11_UnknownUserRead ==
    \E p \in OrderCalls :
        /\ ocall[p].op = "getbyuser" /\ ocall[p].pc = "idle"
        /\ container.UserVerifier # "nil"
        /\ ocall[p].seen.up /\ ocall[p].userId \notin ocall[p].seen.ids
        /\ ocall[p].readable # {}
        /\ ocall[p].code = ErrorCodeUserNotFound

\* C12: every order Update, Delete or GetByID that returns answers NOT_FOUND
\* exactly when no order has the identifier it was given, and an answer of
\* NOT_FOUND leaves the orders table as it was.
C12_NotFoundIffAbsent ==
    [][\A p \in WriteCalls :
         wcall'[p] # wcall[p] /\ wcall'[p].pc = "idle"
         => /\ (wcall'[p].code = ErrorCodeNotFound) <=> (wcall'[p].id \notin DOMAIN orders)
            /\ (wcall'[p].code = ErrorCodeNotFound) => (orders' = orders /\ orderStamp' = orderStamp)]_vars

\* C12: an Update has answered NOT_FOUND for an order that is stored.
C12_NotFoundOnStoredOrder ==
    \E p \in WriteCalls :
        /\ wcall[p].pc = "idle" /\ wcall[p].op = "update"
        /\ wcall[p].code = ErrorCodeNotFound
        /\ wcall[p].id \in DOMAIN orders

\* The smallest number of pages of the given size that hold total records.
CeilDiv(total, limit) ==
    CHOOSE n \in 0..total : n * limit >= total /\ (n = 0 \/ (n - 1) * limit < total)

\* C13: every list call that is served reports totalPages = ceil(total / limit),
\* in the service result and in the pagination block of the response envelope.
C13_TotalPagesIsCeiling ==
    (listing.http = 200 /\ listing.effLimit >= 1)
    => /\ listing.svcTotalPages = CeilDiv(listing.total, listing.effLimit)
       /\ listing.envTotalPages = CeilDiv(listing.total, listing.effLimit)

\* C13: a User GetAll over a non-empty table whose service result has fewer
\* pages than its response envelope.
C13_UserResultFloors ==
    /\ listing.op = "user_getall" /\ listing.http = 200 /\ listing.total > 0
    /\ listing.svcTotalPages < listing.envTotalPages

\* C14: every list call is served with effective page 1 when the page is
\* absent or below 1, with the entity's default size (20 for users, 10 for
\* orders) when the size is absent, with size 100 when the requested size
\* is above 100, and always with a size within 1..100.
C14_PagingDefaultedAndClamped ==
    listing.op # "none"
    => /\ listing.http = 200
       /\ (listing.page = <<>> \/ (listing.page # <<>> /\ listing.page[1] < 1)) => listing.effPage = 1
       /\ listing.limit = <<>>
            => listing.effLimit = (IF listing.op = "user_getall" THEN 20 ELSE 10)
       /\ (listing.limit # <<>> /\ listing.limit[1] > 100) => listing.effLimit = 100
       /\ listing.effLimit \in 1..100

\* C14: a list call that asked for more than 100 records per page and was
\* answered without a query of size 100.
C14_OversizeNotClamped ==
    /\ listing.op # "none"
    /\ listing.limit # <<>> /\ listing.limit[1] > 100
    /\ listing.effLimit # 100

\* C15: a served User GetAll returns the requested page of the stored
\* records ordered by creation time descending.
C15_UsersNewestFirst ==
    (listing.op = "user_getall" /\ listing.http = 200)
    => /\ \A i, j \in DOMAIN listing.data : i < j => listing.data[i] > listing.data[j]
       /\ listing.data = PageOf(Descending(listing.table), listing.effPage, listing.effLimit)

\* C15: a served User GetAll whose page is not in descending creation order.
C15_UsersOutOfOrder ==
    /\ listing.op = "user_getall" /\ listing.http = 200
    /\ \E i, j \in DOMAIN listing.data : i < j /\ listing.data[i] < listing.data[j]

C17_EveryResponseHasRequestId ==
    (sres.pos = AbortIndex /\ sres.status # 0)
    => /\ sres.xRequestId # <<>>
       /\ sreq.requestId # "" => sres.xRequestId = <<sreq.requestId>>

\* C18: in production a response carries Access-Control-Allow-Origin only if
\* the request's Origin is an entry of the configured allow-list, and with
\* CORS_ORIGINS empty no response carries it, whatever the Origin.
C18_ProductionAllowOriginOnlyForListed ==
    (deployment.production /\ sres.pos > StageIndex("CORS"))
    => /\ sres.allowOrigin # <<>>
            => \E i \in DOMAIN ParseAllowedOrigins(deployment.corsOrigins) :
                   ParseAllowedOrigins(deployment.corsOrigins)[i] = sreq.origin
       /\ deployment.corsOrigins = <<>> => sres.allowOrigin = <<>>

\* C18: a production response that carries Access-Control-Allow-Origin for a
\* listed origin.
C18_ListedOriginEchoed ==
    /\ deployment.production
    /\ sres.pos = AbortIndex /\ sres.status # 0
    /\ sreq.origin = OriginB
    /\ sres.allowOrigin = <<OriginB>>

\* C19: a POST, PUT or PATCH request whose body is larger than the maximum
\* size, or whose non-empty body has a Content-Type that is missing or not
\* application/json, never reaches a handler, declared Content-Length or not.
C19_InvalidBodyNeverReachesHandler ==
    ( /\ sreq.method \in {"POST", "PUT", "PATCH"}
      /\ \/ sreq.bodySize > MaxRequestSize
         \/ /\ sreq.bodySize > 0
            /\ (sreq.contentType = <<>> \/ sreq.contentType[1] # "application/json") )
    => \A i \in DOMAIN sres.ran : sres.ran[i] # "handler"

\* C20: an internal-error response (code INTERNAL_ERROR, HTTP 500) carries
\* only the generic phrase in production mode, and outside production mode it
\* carries the message of the error behind it.
C20_InternalErrorMessage ==
    (eresp.code = "INTERNAL_ERROR" /\ eresp.http = 500)
    => /\ IsProductionMode => eresp.message = "An internal error occurred"
       /\ (~IsProductionMode /\ eresp.err # <<>>) => eresp.message = eresp.err[1]

\* C20: outside production mode, an internal-error response whose message is
\* the service's own text and not the text of the error behind it.
C20_ServiceTextSurfaced ==
    /\ ~IsProductionMode
    /\ eresp.by = "RespondServiceError"
    /\ eresp.code = "INTERNAL_ERROR" /\ eresp.http = 500
    /\ eresp.err # <<>> /\ eresp.message # eresp.err[1]

\* C22: an implementation with both capabilities, registered through either
\* setter, sets the combined UserService slot; and whenever the combined slot
\* is set, its VerifyUserExists goes to the implementation in the
\* UserVerifier slot when that slot is set, and its GetUserByID to the
\* implementation in the UserGetter slot when that slot is set.
C22_CombinedFollowsSlots ==
    /\ (\/ (registry.UserVerifier # "nil" /\ ImplementsGetter(registry.UserVerifier))
        \/ (registry.UserGetter # "nil" /\ ImplementsVerifier(registry.UserGetter)))
         => registry.UserService # NoCombined
    /\ registry.UserService # NoCombined
         => /\ registry.UserVerifier # "nil"
                 => registry.UserService.UserVerifier = registry.UserVerifier
            /\ registry.UserGetter # "nil"
                 => registry.UserService.UserGetter = registry.UserGetter

\* C22: the combined slot answers GetUserByID through an implementation that
\* is not the one in the UserGetter slot.
C22_StaleCombinedGetter ==
    /\ registry.UserService # NoCombined
    /\ registry.UserGetter # "nil"
    /\ registry.UserService.UserGetter # registry.UserGetter

\* C21: each slot of the registry (UserVerifier, UserGetter, the combined
\* UserService, OrderService) is assigned exactly once, the User slots before
\* the Order slot, all before any request is served, and none afterwards.
C21_EachSlotWrittenOnce ==
    /\ \A s \in Slots : slotWrites[s] <= 1
    /\ slotWrites["OrderService"] > 0
         => \A s \in {"UserVerifier", "UserGetter", "UserService"} : slotWrites[s] > 0
    /\ (listening \/ \E r \in ServerReqs : inflight[r].st # "idle")
         => \A s \in Slots : slotWrites[s] = 1

\* C21, as the code has it: UserVerifier, UserGetter and OrderService are
\* assigned exactly once and the combined UserService slot twice, once by
\* each of the two user setters; the User slots are assigned before the Order
\* slot; and from the moment the server listens every slot keeps its value
\* and its count, so every request reads the completed registry.
C21_RegistryCompleteBeforeServing ==
    /\ \A s \in Slots : slotWrites[s] <= (IF s = "UserService" THEN 2 ELSE 1)
    /\ slotWrites["OrderService"] > 0
         => /\ slotWrites["UserVerifier"] = 1 /\ slotWrites["UserGetter"] = 1
            /\ slotWrites["UserService"] = 2
    /\ (listening \/ pcMain \in {"waiting", "signalled", "db_closed", "draining", "exited", "killed"}
           \/ \E r \in ServerReqs : inflight[r].st # "idle")
         => /\ slotWrites = [s \in Slots |-> IF s = "UserService" THEN 2 ELSE 1]
            /\ registry = [UserVerifier |-> "userAdapter", UserGetter |-> "userAdapter",
                           UserService |-> [UserVerifier |-> "userAdapter",
                                            UserGetter |-> "userAdapter"],
                           OrderService |-> "orderAdapter"]
    /\ \A r \in ServerReqs : inflight[r].st = "queried" => inflight[r].verifier = "userAdapter"

\* C21: a request is being served from the completed registry.
C21_RequestServedAfterStartup ==
    /\ listening
    /\ \E r \in ServerReqs : inflight[r].st = "queried" /\ inflight[r].verifier = "userAdapter"
    /\ slotWrites["UserService"] = 2

\* C30: from the signal on, the database connection is closed only after the
\* server has stopped accepting and no request is in flight, and no request
\* runs its query against a closed database.
C30_DrainBeforeDatabaseClose ==
    /\ (pcMain \in {"db_closed", "draining", "exited", "killed"} /\ ~dbOpen)
         => (~listening /\ \A r \in ServerReqs : inflight[r].st = "idle")
    /\ \A r \in ServerReqs : inflight[r].db # "closed"

\* C30: a request accepted before the signal has run its query against the
\* closed database.
C30_QueryOnClosedDatabase ==
    \E r \in ServerReqs : inflight[r].st = "queried" /\ inflight[r].db = "closed"

\* C23: a successful User Delete removes exactly the targeted user record:
\* every other user record and every order record, the orders owned by the
\* deleted user included, is unchanged by it.
C23_DeleteRemovesOnlyTarget ==
    [][\A p \in UserCalls :
          (ucall[p].pc = "delete_write" /\ ucall'[p].pc = "idle" /\ ucall'[p].code = CodeOK)
          => /\ DOMAIN users' = (DOMAIN users) \ {ucall[p].id}
             /\ \A i \in DOMAIN users' : users'[i] = users[i]
             /\ orders' = orders]_vars

\* C23: a Delete has succeeded and an order owned by the deleted user is
\* still stored, next to another user's record.
C23_OrphanedOrderKept ==
    /\ \E p \in UserCalls : ucall[p].op = "delete" /\ ucall[p].code = CodeOK
    /\ \E o \in DOMAIN orders : orders[o].userId \notin DOMAIN users
    /\ users # <<>>

\* C25: each sweep of the bucket table evicts a client's bucket if and only
\* if that bucket served no request since the previous sweep, and a bucket
\* used since then is retained with its token count.
C25_SweepEvictsIffUnused ==
    [][(lcall' = lcall /\ burstSeen' = burstSeen /\ limiters' # limiters)
       => \A ip \in Clients :
            limiters[ip] # 0
            => /\ (limiters'[ip] = 0) <=> (limiters[ip] \notin usedSince)
               /\ limiters[ip] \in usedSince
                    => buckets'[limiters[ip]] = buckets[limiters[ip]]]_vars

\* C26: all in-flight requests of one client address draw from one and the
\* same bucket, and a request never takes a token of a bucket that is no
\* longer the table's entry for its address.
C26_OneBucketPerClient ==
    [][\A r \in LimiterReqs :
          (lcall[r].pc = "have" /\ lcall'[r].pc = "idle")
          => /\ lcall[r].bucket = limiters[lcall[r].ip]
             /\ \A q \in LimiterReqs :
                   (lcall[q].pc = "have" /\ lcall[q].ip = lcall[r].ip)
                   => lcall[q].bucket = lcall[r].bucket]_vars

\* C24: OrderService.Update rejects a status outside {1, 2, 3} and leaves
\* the order unchanged, so after any sequence of OrderService calls every
\* stored order has a status in {1, 2, 3}.
C24_StoredStatusInEnum ==
    \A o \in DOMAIN orders :
        orders[o].status \in {OrderStatusPending, OrderStatusCompleted, OrderStatusCancelled}

\* C27: an Update overwrites only the fields it supplies, also when another
\* Update of the same order runs concurrently: a successful Update leaves
\* every field it did not supply at the value stored when it writes.
C27_UpdateKeepsUnsuppliedFields ==
    [][\A p \in WriteCalls :
          (wcall[p].pc = "update_write" /\ wcall'[p].pc = "idle" /\ wcall'[p].code = CodeOK)
          => LET id == wcall[p].id
                 req == wcall[p].req
             IN /\ req.quantity = <<>> => orders'[id].quantity = orders[id].quantity
                /\ req.status = <<>> => orders'[id].status = orders[id].status]_vars

\* C28: with the User capability registered, every order that is persisted
\* has, at the moment it is written, an owning user that exists and is
\* active, whatever User Delete does between the check and the insert.
C28_OwnerActiveAtInsert ==
    [][\A p \in OrderCalls :
          (/\ ocall[p].pc = "create_insert" /\ ocall'[p].pc = "idle"
           /\ container.UserVerifier = "userAdapter" /\ container.UserGetter = "userAdapter")
          => /\ ocall[p].userId \in DOMAIN users
             /\ users[ocall[p].userId].status = 1]_vars

\* C29: a request to /health, /health/ready or /health/live bypasses the
\* global middleware chain: it is never answered 429 by the rate limiter or
\* 504 by the timeout stage.
C29_HealthBypassesMiddleware ==
    sreq.path \in HealthPaths => sres.status \notin {429, 504}

====
